---- MODULE Spec2Model ----
(***************************************************************************)
(* Model of the QUAD documentation generator.                              *)
(*                                                                         *)
(* Text is modelled as a sequence of lines and a line as a sequence of     *)
(* tokens.  A token is either one whitespace character (" "), one piece    *)
(* of punctuation ("{", "}", "(", "*/", ...) or one maximal run of word    *)
(* characters ("function", "add", ...).  Line numbers are 0-based, as in   *)
(* the source; line n of a document d is d[n + 1].                         *)
(***************************************************************************)
EXTENDS Integers, Sequences, FiniteSets, TLC

\* ------------------------------------------------------------------------
\* Bounds of the model
\* ------------------------------------------------------------------------

\* Calendar dates 1..MaxDay; date 0 stands for the empty string ''.
MaxDay == 2

\* The cursor of a documentFunction command is on one of the lines
\* 0..MaxLines-1 of the document.
MaxLines == 30

\* The documents the locator is applied to on its own have up to MaxDocLen
\* lines drawn from a set of lines, or are such a document of up to two
\* lines stretched by about ScanBack lines after its first line.
MaxDocLen == 3

\* The generated texts that are cleaned on their own have up to MaxRawLen
\* lines drawn from a set of lines, or are one of a few longer texts.
MaxRawLen == 2

\* ------------------------------------------------------------------------
\* Program constants
\* ------------------------------------------------------------------------

DAILY_POOL_LIMIT == 20

DAILY_OWN_KEY_LIMIT == 1500

\* findFunctionAtPosition looks at the query line and the 20 lines before it.
ScanBack == 20

\* ------------------------------------------------------------------------
\* Tokens and lines
\* ------------------------------------------------------------------------

\* Tokens that are not runs of word characters (\w).  "" is what At returns
\* past the end of a line; "FENCE" stands for three backticks.
NonWordTokens ==
    {"", " ", "(", ")", "{", "}", "=", "=>", ":", ",", ";", "+", ".",
     "/**", "*/", "*", "///", "//", "#", "FENCE", "\"\"\"", "'''"}

IsWs(tok) == tok = " "

IsWord(tok) == tok \notin NonWordTokens

At(line, i) == IF i >= 1 /\ i <= Len(line) THEN line[i] ELSE ""

\* Index of the first token at or after i that is not whitespace (\s*).
RECURSIVE SkipWs(_, _)
SkipWs(line, i) ==
    IF i <= Len(line) /\ IsWs(line[i]) THEN SkipWs(line, i + 1) ELSE i

\* Index after an optional "<word>\s+" group starting at i: (?:word\s+)?
SkipOptWord(line, i, words) ==
    IF At(line, i) \in words /\ IsWs(At(line, i + 1))
    THEN SkipWs(line, i + 1)
    ELSE i

\* Index of the last token of the line that is not whitespace, 0 if none.
RECURSIVE LastNonWs(_, _)
LastNonWs(line, i) ==
    IF i >= 1 /\ IsWs(line[i]) THEN LastNonWs(line, i - 1) ELSE i

\* String.prototype.trim() on one line.
TrimLine(line) ==
    LET a == SkipWs(line, 1)
        b == LastNonWs(line, Len(line))
    IN  IF a > b THEN <<>> ELSE SubSeq(line, a, b)

\* ------------------------------------------------------------------------
\* Region locator
\* ------------------------------------------------------------------------

\* The result of a failed String.prototype.match.
NoMatch == ""

\* /^\s*(?:export\s+)?(?:async\s+)?function\s+(\w+)/
MatchJsFunction(line) ==
    LET i0 == SkipWs(line, 1)
        i1 == SkipOptWord(line, i0, {"export"})
        i2 == SkipOptWord(line, i1, {"async"})
        j  == SkipWs(line, i2 + 1)
    IN  IF /\ At(line, i2) = "function"
           /\ IsWs(At(line, i2 + 1))
           /\ IsWord(At(line, j))
        THEN At(line, j)
        ELSE NoMatch

\* /^\s*(?:export\s+)?(?:const|let|var)\s+(\w+)\s*=\s*(?:async\s+)?\(/
MatchJsConst(line) ==
    LET i0 == SkipWs(line, 1)
        i1 == SkipOptWord(line, i0, {"export"})
        j  == SkipWs(line, i1 + 1)
        k  == SkipWs(line, j + 1)
        k1 == SkipWs(line, k + 1)
        k2 == SkipOptWord(line, k1, {"async"})
    IN  IF /\ At(line, i1) \in {"const", "let", "var"}
           /\ IsWs(At(line, i1 + 1))
           /\ IsWord(At(line, j))
           /\ At(line, k) = "="
           /\ At(line, k2) = "("
        THEN At(line, j)
        ELSE NoMatch

\* /^\s*(\w+)\s*:\s*(?:async\s+)?function/
MatchJsProperty(line) ==
    LET i0 == SkipWs(line, 1)
        k  == SkipWs(line, i0 + 1)
        k1 == SkipWs(line, k + 1)
        k2 == SkipOptWord(line, k1, {"async"})
    IN  IF /\ IsWord(At(line, i0))
           /\ At(line, k) = ":"
           /\ At(line, k2) = "function"
        THEN At(line, i0)
        ELSE NoMatch

\* /^\s*(?:async\s+)?def\s+(\w+)\s*\(/
MatchPyDef(line) ==
    LET i0 == SkipWs(line, 1)
        i1 == SkipOptWord(line, i0, {"async"})
        j  == SkipWs(line, i1 + 1)
        k  == SkipWs(line, j + 1)
    IN  IF /\ At(line, i1) = "def"
           /\ IsWs(At(line, i1 + 1))
           /\ IsWord(At(line, j))
           /\ At(line, k) = "("
        THEN At(line, j)
        ELSE NoMatch

\* The languages of the modelled documents; "plaintext" has no pattern list
\* of its own.
Languages == {"javascript", "python", "plaintext"}

\* getFunctionPatterns(language), restricted to Languages: the ordered
\* list of the captures of the language's patterns on the line.
GetFunctionPatterns(language, line) ==
    IF language = "python"
    THEN <<MatchPyDef(line)>>
    ELSE <<MatchJsFunction(line), MatchJsConst(line), MatchJsProperty(line)>>

\* The capture of the first pattern of the list that matches the line
\* (for (const pattern of patterns) { const match = line.match(pattern) ...).
RECURSIVE FirstCapture(_, _)
FirstCapture(caps, k) ==
    IF k > Len(caps) THEN NoMatch
    ELSE IF caps[k] # NoMatch THEN caps[k]
    ELSE FirstCapture(caps, k + 1)

MatchLine(language, line) == FirstCapture(GetFunctionPatterns(language, line), 1)

\* getIndentLevel(line): the length of the leading whitespace.
GetIndentLevel(line) == SkipWs(line, 1) - 1

\* Number of tokens tok in the line.
RECURSIVE CountTok(_, _, _)
CountTok(line, tok, i) ==
    IF i > Len(line) THEN 0
    ELSE (IF line[i] = tok THEN 1 ELSE 0) + CountTok(line, tok, i + 1)

\* The Python branch of findFunctionEnd, scanning from line i.
RECURSIVE PyEnd(_, _, _)
PyEnd(lines, startIndent, i) ==
    IF i >= Len(lines) THEN Len(lines) - 1
    ELSE LET line == TrimLine(lines[i + 1])
         IN  IF line = <<>> \/ At(line, 1) = "#"
             THEN PyEnd(lines, startIndent, i + 1)
             ELSE IF GetIndentLevel(lines[i + 1]) <= startIndent
                  THEN i - 1
                  ELSE PyEnd(lines, startIndent, i + 1)

\* The brace branch of findFunctionEnd, scanning from line i.  The test
\* "started && braceCount === 0" is made once per line, after all of the
\* line's characters were counted.
RECURSIVE BraceEnd(_, _, _, _, _)
BraceEnd(lines, startLine, i, braceCount, started) ==
    IF i >= Len(lines) THEN startLine
    ELSE LET opens  == CountTok(lines[i + 1], "{", 1)
             closes == CountTok(lines[i + 1], "}", 1)
             count  == braceCount + opens - closes
             st     == started \/ opens > 0
         IN  IF st /\ count = 0 THEN i
             ELSE BraceEnd(lines, startLine, i + 1, count, st)

\* findFunctionEnd without its Python branch.
FindFunctionEndBraceOnly(lines, startLine, language) ==
    BraceEnd(lines, startLine, startLine, 0, FALSE)

FindFunctionEnd(lines, startLine, language) ==
    IF language = "python"
    THEN PyEnd(lines, GetIndentLevel(lines[startLine + 1]), startLine + 1)
    ELSE BraceEnd(lines, startLine, startLine, 0, FALSE)

\* A ParsedFunction, or the null that findFunctionAtPosition returns.
NoFunction ==
    [found |-> FALSE, name |-> "", startLine |-> 0, endLine |-> 0,
     code |-> <<>>]

Min(a, b) == IF a <= b THEN a ELSE b

\* lines.slice(start, end) for 0 <= start: the elements with the indices
\* start .. end-1 that exist.  The join('\n') that follows leaves the lines
\* as they are, a text being the sequence of its lines.
Slice(lines, start, end) == SubSeq(lines, start + 1, Min(end, Len(lines)))

\* A ParsedFunction whose code is lines.slice(i, endLine).
ParsedFunctionShortSlice(lines, i, language) ==
    LET endLine == FindFunctionEnd(lines, i, language)
    IN  [found |-> TRUE, name |-> MatchLine(language, lines[i + 1]),
         startLine |-> i, endLine |-> endLine,
         code |-> Slice(lines, i, endLine)]

ParsedFunction(lines, i, language) ==
    LET endLine == FindFunctionEnd(lines, i, language)
    IN  [found |-> TRUE, name |-> MatchLine(language, lines[i + 1]),
         startLine |-> i, endLine |-> endLine,
         code |-> Slice(lines, i, endLine + 1)]

Max(a, b) == IF a >= b THEN a ELSE b

\* The loop of findFunctionAtPosition at line i, stopping below line lo.
RECURSIVE ScanBackFrom(_, _, _, _)
ScanBackFrom(lines, i, lo, language) ==
    IF i < lo THEN NoFunction
    ELSE IF MatchLine(language, lines[i + 1]) # NoMatch
         THEN ParsedFunction(lines, i, language)
         ELSE ScanBackFrom(lines, i - 1, lo, language)

\* The loop of findFunctionAtPosition run from line i up to the query line.
RECURSIVE ScanUpFrom(_, _, _, _)
ScanUpFrom(lines, i, hi, language) ==
    IF i > hi THEN NoFunction
    ELSE IF MatchLine(language, lines[i + 1]) # NoMatch
         THEN ParsedFunction(lines, i, language)
         ELSE ScanUpFrom(lines, i + 1, hi, language)

\* findFunctionAtPosition with a loop that starts at the far end of its
\* range and goes towards the query line.
FindFunctionAtPositionFromBoundary(lines, lineNumber, language) ==
    ScanUpFrom(lines, Max(0, lineNumber - ScanBack), lineNumber, language)

\* findFunctionAtPosition with a loop that goes one line further back.
FindFunctionAtPositionWide(lines, lineNumber, language) ==
    ScanBackFrom(lines, lineNumber, Max(0, lineNumber - ScanBack - 1),
                 language)

FindFunctionAtPosition(lines, lineNumber, language) ==
    ScanBackFrom(lines, lineNumber, Max(0, lineNumber - ScanBack), language)

\* The loop of findAllFunctions from line i on.
RECURSIVE ScanAllFrom(_, _, _)
ScanAllFrom(lines, i, language) ==
    IF i >= Len(lines) THEN <<>>
    ELSE IF MatchLine(language, lines[i + 1]) # NoMatch
         THEN <<ParsedFunction(lines, i, language)>>
                  \o ScanAllFrom(lines, i + 1, language)
         ELSE ScanAllFrom(lines, i + 1, language)

FindAllFunctions(lines, language) == ScanAllFrom(lines, 0, language)

\* hasDocumentation without the trim() of the line before.
HasDocumentationNoTrim(lines, lineNumber) ==
    IF lineNumber = 0 THEN FALSE
    ELSE LET prevLine == lines[lineNumber]
         IN  \/ At(prevLine, Len(prevLine)) = "*/"
             \/ At(prevLine, Len(prevLine)) = "\"\"\""
             \/ At(prevLine, Len(prevLine)) = "'''"
             \/ At(prevLine, 1) = "///"

\* hasDocumentation(document, lineNumber)
HasDocumentation(lines, lineNumber) ==
    IF lineNumber = 0 THEN FALSE
    ELSE LET prevLine == TrimLine(lines[lineNumber])
         IN  \/ At(prevLine, Len(prevLine)) = "*/"
             \/ At(prevLine, Len(prevLine)) = "\"\"\""
             \/ At(prevLine, Len(prevLine)) = "'''"
             \/ At(prevLine, 1) = "///"

\* ------------------------------------------------------------------------
\* Documentation clean-up
\* ------------------------------------------------------------------------

\* One line under the first replace of cleanDocumentation (a fence at the
\* start of a line, the word after it, the newline): the fence and the
\* word after it go; when nothing is left on the line its newline goes too,
\* so the line disappears unless it is the last one.
StripFenceStart(line) ==
    IF At(line, 1) # "FENCE" THEN line
    ELSE IF IsWord(At(line, 2)) THEN SubSeq(line, 3, Len(line))
    ELSE SubSeq(line, 2, Len(line))

RECURSIVE ReplaceFenceStart(_, _)
ReplaceFenceStart(text, i) ==
    IF i > Len(text) THEN <<>>
    ELSE IF /\ At(text[i], 1) = "FENCE"
            /\ StripFenceStart(text[i]) = <<>>
            /\ i < Len(text)
         THEN ReplaceFenceStart(text, i + 1)
         ELSE <<StripFenceStart(text[i])>> \o ReplaceFenceStart(text, i + 1)

\* The second replace of cleanDocumentation: a fence that ends a line goes.
ReplaceFenceEnd(text) ==
    [i \in 1..Len(text) |->
        IF At(text[i], Len(text[i])) = "FENCE"
        THEN SubSeq(text[i], 1, Len(text[i]) - 1)
        ELSE text[i]]

IsBlank(line) == SkipWs(line, 1) > Len(line)

RECURSIVE FirstNonBlank(_, _)
FirstNonBlank(text, i) ==
    IF i <= Len(text) /\ IsBlank(text[i]) THEN FirstNonBlank(text, i + 1) ELSE i

RECURSIVE LastNonBlank(_, _)
LastNonBlank(text, i) ==
    IF i >= 1 /\ IsBlank(text[i]) THEN LastNonBlank(text, i - 1) ELSE i

\* String.prototype.trim() on a text of several lines.  The empty string is
\* the text of one empty line.
TrimText(text) ==
    LET a == FirstNonBlank(text, 1)
        b == LastNonBlank(text, Len(text))
    IN  IF a > b THEN << <<>> >>
        ELSE IF a = b THEN << TrimLine(text[a]) >>
        ELSE << SubSeq(text[a], SkipWs(text[a], 1), Len(text[a])) >>
                 \o SubSeq(text, a + 1, b - 1)
                 \o << SubSeq(text[b], 1, LastNonWs(text[b], Len(text[b]))) >>

BraceStyles == {"jsdoc", "tsdoc", "javadoc"}

\* cleanDocumentation that puts the opening line before every text.
CleanDocumentationAlwaysOpen(doc, style) ==
    LET cleaned == TrimText(ReplaceFenceEnd(ReplaceFenceStart(doc, 1)))
        opened  == << <<"/**">> >> \o cleaned
        closed  == IF At(opened[Len(opened)], Len(opened[Len(opened)])) # "*/"
                   THEN opened \o << <<" ", "*/">> >>
                   ELSE opened
    IN  IF style \in BraceStyles THEN closed ELSE cleaned

\* cleanDocumentation(doc, style)
CleanDocumentation(doc, style) ==
    LET cleaned == TrimText(ReplaceFenceEnd(ReplaceFenceStart(doc, 1)))
        opened  == IF At(cleaned[1], 1) # "/**"
                   THEN << <<"/**">> >> \o cleaned
                   ELSE cleaned
        closed  == IF At(opened[Len(opened)], Len(opened[Len(opened)])) # "*/"
                   THEN opened \o << <<" ", "*/">> >>
                   ELSE opened
    IN  IF style \in BraceStyles THEN closed ELSE cleaned

\* The leading whitespace of a line: line.text.match(/^\s*/)
LeadingWhitespace(line) == SubSeq(line, 1, GetIndentLevel(line))

\* indentDocumentation(doc, indentation)
IndentDocumentation(doc, indentation) ==
    [i \in 1..Len(doc) |-> indentation \o doc[i]]

\* LANGUAGE_STYLE_MAP[language] || 'jsdoc'
LanguageStyle(language) ==
    CASE language = "typescript"      -> "tsdoc"
      [] language = "javascript"      -> "jsdoc"
      [] language = "typescriptreact" -> "tsdoc"
      [] language = "javascriptreact" -> "jsdoc"
      [] language = "python"          -> "google"
      [] language = "java"            -> "javadoc"
      [] language = "kotlin"          -> "javadoc"
      [] language = "go"              -> "godoc"
      [] language = "rust"            -> "rustdoc"
      [] language = "cpp"             -> "doxygen"
      [] language = "c"               -> "doxygen"
      [] language = "csharp"          -> "xmldoc"
      [] language = "php"             -> "phpdoc"
      [] language = "ruby"            -> "yard"
      [] language = "swift"           -> "swift"
      [] OTHER                        -> "jsdoc"

\* let style = config.get('documentationStyle', 'auto');
\* if (style === 'auto') style = LANGUAGE_STYLE_MAP[language] || 'jsdoc';
ResolveStyle(configured, language) ==
    IF configured = "auto" THEN LanguageStyle(language) ELSE configured

\* A DocumentationResult, or the null the service returns.
NoResult ==
    [present |-> FALSE, line |-> 0, documentation |-> <<>>, functionName |-> ""]

\* The tail of documentFunction and of documentSelection: clean the text,
\* indent it like the target line of the document, build the result.
BuildResult(lines, raw, style, line, name) ==
    [present |-> TRUE, line |-> line,
     documentation |->
        IndentDocumentation(CleanDocumentation(raw, style),
                            LeadingWhitespace(lines[line + 1])),
     functionName |-> name]

\* An insert that puts the documentation after the line instead of before it.
InsertAfterLine(lines, line, documentation) ==
    SubSeq(lines, 1, line + 1) \o documentation
        \o SubSeq(lines, line + 2, Len(lines))

\* editBuilder.insert(new Position(line, 0), documentation + '\n')
InsertAt(lines, line, documentation) ==
    SubSeq(lines, 1, line) \o documentation \o SubSeq(lines, line + 1, Len(lines))

\* A WorkspaceEdit of several inserts, all positions in the document as it
\* is when the edit is applied: the last result is inserted first.
RECURSIVE ApplyResults(_, _, _)
ApplyResults(lines, results, k) ==
    IF k = 0 THEN lines
    ELSE ApplyResults(InsertAt(lines, results[k].line, results[k].documentation),
                      results, k - 1)

\* ------------------------------------------------------------------------
\* Documents and generated texts
\* ------------------------------------------------------------------------

\* function add(a, b) {
\*   return a + b;
\* }
\* /** doc */
\* function g() {
\* }
\*   foo: function() {
\*   }
DocJs ==
    << <<"function", " ", "add", "(", "a", ",", " ", "b", ")", " ", "{">>,
       <<" ", " ", "return", " ", "a", " ", "+", " ", "b", ";">>,
       <<"}">>,
       <<"/**", " ", "doc", " ", "*/">>,
       <<"function", " ", "g", "(", ")", " ", "{">>,
       <<"}">>,
       <<" ", " ", "foo", ":", " ", "function", "(", ")", " ", "{">>,
       <<" ", " ", "}">> >>

\* x = 1;
\* (empty line)
DocNone == << <<"x", " ", "=", " ", "1", ";">>, <<>> >>

\* /** d */
\* function k() {}
DocDocumented ==
    << <<"/**", " ", "d", " ", "*/">>,
       <<"function", " ", "k", "(", ")", " ", "{", "}">> >>

\* function h() {
\* ;           (21 times)
\* }
DocLong ==
    << <<"function", " ", "h", "(", ")", " ", "{">> >>
        \o [i \in 1..(ScanBack + 1) |-> <<";">>]
        \o << <<"}">> >>

\* def f():
\*     return 1
\* (empty line)
\* def g():
DocPy ==
    << <<"def", " ", "f", "(", ")", ":">>,
       <<" ", " ", " ", " ", "return", " ", "1">>,
       <<>>,
       <<"def", " ", "g", "(", ")", ":">> >>

\* function f(
\*   o = {},
\* ) {
\*   x;
\* }
DocSignature ==
    << <<"function", " ", "f", "(">>,
       <<" ", " ", "o", " ", "=", " ", "{", "}", ",">>,
       <<")", " ", "{">>,
       <<" ", " ", "x", ";">>,
       <<"}">> >>

\* function k() {}
\*   foo: function() {
\*   }
DocMethod ==
    << <<"function", " ", "k", "(", ")", " ", "{", "}">>,
       <<" ", " ", "foo", ":", " ", "function", "(", ")", " ", "{">>,
       <<" ", " ", "}">> >>

\* A fenced comment block, as in the scenario of the specification:
\* FENCE / "/**" / " * Adds two numbers." / " */" / FENCE
RawFenced ==
    << <<"FENCE">>,
       <<"/**">>,
       <<" ", "*", " ", "Adds", " ", "two", " ", "numbers", ".">>,
       <<" ", "*/">>,
       <<"FENCE">> >>

\* Prose without comment delimiters.
RawProse == << <<"Adds", " ", "two", " ", "numbers", ".">> >>

\* Generated texts.
RawTexts == {RawFenced, RawProse}

\* What the external generation call answers in the behaviours of Spec.
AnswerTexts == {RawFenced}

\* ------------------------------------------------------------------------
\* State
\* ------------------------------------------------------------------------

VARIABLES
    document,            \* the lines of the editor's document
    languageId,          \* document.languageId
    documentationStyle,  \* setting quad.documentationStyle
    showInlinePreview,   \* setting quad.showInlinePreview
    apiKey,              \* GeminiService.apiKey
    model,               \* GeminiService.model !== null
    isUsingPool,         \* GeminiService.isUsingPool
    lastUsageDate,       \* globalState 'quad.lastUsageDate' (0: '')
    todayUsage,          \* globalState 'quad.todayUsage'
    totalUsage,          \* globalState 'quad.totalUsage'
    today,               \* the calendar date, new Date().toDateString()
    task,                \* the commands in progress, one record per task
    requests,            \* history: external generation calls started
    succeeded,           \* history: external generation calls that returned
    probe                \* the last application of a locator or clean-up
                         \* function on its own: its inputs and its results

vars ==
    <<document, languageId, documentationStyle, showInlinePreview, apiKey,
      model, isUsingPool, lastUsageDate, todayUsage, totalUsage, today, task,
      requests, succeeded, probe>>

settingVars == <<languageId, documentationStyle, showInlinePreview>>

keyVars == <<apiKey, model, isUsingPool>>

\* The tasks that can run commands at the same time: a command's handler is
\* suspended at each await and another command can be invoked meanwhile.
Tasks == {"t1", "t2"}

Commands ==
    {"documentFunction", "documentFile", "documentSelection", "explainCode",
     "improveCode", "setApiKey"}

\* A task that runs no command.  token is token.isCancellationRequested;
\* func, style, action, undocumented, i, results are the locals of
\* documentFunction and documentFile; returned and result say what the
\* service call of a command returned, error what the command caught;
\* shown is the message of handleError; warnings counts the
\* showWarningMessage calls without buttons, logged the console.error calls
\* of documentFile, attempted the documentFunction calls of its loop; panel
\* says that a webview panel was opened, applied that an edit was made.
\* History: settled is what the last external call of the task settled with
\* ("ok" or the message of its error), generated the number of its external
\* calls that returned a text, thrown the last error a service call of the
\* task threw to its caller, cancelledAt the pc at which cancellation was
\* requested.
IdleTask ==
    [cmd |-> "none", pc |-> "idle", token |-> FALSE, line |-> 0,
     func |-> NoFunction, style |-> "", action |-> "", undocumented |-> <<>>,
     i |-> 0, results |-> <<>>, result |-> NoResult, returned |-> FALSE,
     error |-> "", shown |-> <<>>, warnings |-> 0, logged |-> 0,
     attempted |-> 0, panel |-> FALSE, applied |-> FALSE,
     settled |-> "", generated |-> 0, thrown |-> "",
     cancelledAt |-> ""]

\* The probe when no function was applied on its own.  op names the
\* function applied; q, raw and style are its arguments; func, all, end,
\* flag and text are what it returned; matched and read are the lines it
\* matched against the function patterns and the lines it read; again is
\* what the function returned when applied to text.
NoProbe ==
    [op |-> "none", q |-> 0, raw |-> <<>>, style |-> "", func |-> NoFunction,
     all |-> <<>>, end |-> 0, flag |-> FALSE, matched |-> {}, read |-> {},
     text |-> <<>>, again |-> <<>>]

\* ------------------------------------------------------------------------
\* GeminiService
\* ------------------------------------------------------------------------

QUAD_POOL_PLACEHOLDER == "QUAD_POOL_PLACEHOLDER"

\* QUAD_POOL_KEY is "replaced at build time": a build ships the placeholder
\* or a real key.
PoolKeys == {QUAD_POOL_PLACEHOLDER, "AIzaPool"}

UserKeys == {"", "AIzaUser"}

\* initializeApiKey() with the settings geminiApiKey and useQuadPool;
\* initializeModel() succeeds.
InitializeApiKey(userKey, usePool, poolKey) ==
    LET key == IF userKey # "" THEN userKey
               ELSE IF usePool THEN poolKey ELSE ""
    IN  [apiKey |-> key,
         isUsingPool |-> (userKey = "" /\ usePool),
         model |-> (key # "" /\ key # QUAD_POOL_PLACEHOLDER)]

\* The keys of the table guides of getStyleGuide.
GuideStyles ==
    {"jsdoc", "tsdoc", "javadoc", "google", "numpy", "rustdoc", "godoc",
     "xmldoc"}

\* guides[style] for a key of the table: the heading of the guide, then the
\* first line of its skeleton and the line of the skeleton that describes a
\* parameter, each sentence being one token.
StyleGuide(style) ==
    CASE style = "jsdoc" ->
           << <<"JSDoc format:">>, <<"/**">>,
              <<" ", "*", " ", "@param {type} name - Parameter description">> >>
      [] style = "tsdoc" ->
           << <<"TSDoc format:">>, <<"/**">>,
              <<" ", "*", " ", "@param name - Parameter description">> >>
      [] style = "javadoc" ->
           << <<"Javadoc format:">>, <<"/**">>,
              <<" ", "*", " ", "@param name parameter description">> >>
      [] style = "google" ->
           << <<"Google Python style:">>, <<"\"\"\"", "Brief description.">>,
              <<"Args:">> >>
      [] style = "numpy" ->
           << <<"NumPy style:">>, <<"\"\"\"", "Brief description.">>,
              <<"Parameters">> >>
      [] style = "rustdoc" ->
           << <<"Rustdoc format:">>, <<"///", " ", "Brief description.">>,
              <<"///", " ", "# Arguments">> >>
      [] style = "godoc" ->
           << <<"GoDoc format (comment block before function):">>,
              <<"//", " ", "FunctionName does something.">>,
              <<"//", " ", "It takes name parameter and returns result.">> >>
      [] style = "xmldoc" ->
           << <<"C# XML documentation:">>, <<"///", " ", "<summary>">>,
              <<"///", " ", "<param name=\"name\">Parameter description.</param>">> >>

\* getStyleGuide(style, language): guides[style] || guides.jsdoc
GetStyleGuide(style, language) ==
    IF style \in GuideStyles THEN StyleGuide(style) ELSE StyleGuide("jsdoc")

\* buildDocumentationPrompt(request): the lines of the prompt, each fixed
\* sentence being one token.
BuildDocumentationPrompt(request) ==
    << <<"You are an expert technical writer specializing in code documentation.">>,
       <<>>,
       <<"Generate documentation for this ", request.language,
         " code using ", request.style, " style.">>,
       <<>> >>
     \o GetStyleGuide(request.style, request.language)
     \o << <<>>,
           <<"Code to document:">>,
           <<"FENCE", request.language>> >>
     \o request.code
     \o << <<"FENCE">>,
           <<>>,
           <<"Requirements:">>,
           <<"- Follow the exact ", request.style, " format">>,
           <<"- Be concise but complete">>,
           <<"- Use proper grammar">> >>
     \o (IF request.includeTypes
         THEN << <<"- Include type annotations for all parameters and return values">> >>
         ELSE <<>>)
     \o (IF request.includeExamples
         THEN << <<"- Include a practical usage example">> >>
         ELSE <<>>)
     \o << <<>>,
           <<"Respond ONLY with the documentation comment. No additional text.">> >>

ErrApiKey == "API_KEY: Gemini API key not configured"

ErrQuotaDaily == "QUOTA: Daily request limit exceeded"

ErrQuotaRate == "QUOTA: Rate limit exceeded. Please try again later."

Err429 == "[429 Too Many Requests] Resource has been exhausted"

ErrFetch == "fetch failed"

\* The errors the external call can reject with.
ExtErrors == {Err429, ErrFetch}

\* error.message.includes('429'), 'API_KEY', 'QUOTA' on the messages above.
Includes429(message) == message = Err429

IncludesApiKey(message) == message = ErrApiKey

IncludesQuota(message) == message \in {ErrQuotaDaily, ErrQuotaRate}

\* What model.generateContent(prompt) settles with.
Outcomes ==
    {[ok |-> TRUE, text |-> r, error |-> ""] : r \in AnswerTexts}
        \cup {[ok |-> FALSE, text |-> <<>>, error |-> e] : e \in ExtErrors}

DailyLimit == IF isUsingPool THEN DAILY_POOL_LIMIT ELSE DAILY_OWN_KEY_LIMIT

\* checkQuota() with the comparison todayCount <= limit.
CheckQuotaOffByOne ==
    IF lastUsageDate # today
    THEN [ok |-> TRUE, lastUsageDate |-> today, todayUsage |-> 0]
    ELSE [ok |-> todayUsage <= DailyLimit, lastUsageDate |-> lastUsageDate,
          todayUsage |-> todayUsage]

\* checkQuota(): its result and the globalState it leaves.
CheckQuota ==
    IF lastUsageDate # today
    THEN [ok |-> TRUE, lastUsageDate |-> today, todayUsage |-> 0]
    ELSE [ok |-> todayUsage < DailyLimit, lastUsageDate |-> lastUsageDate,
          todayUsage |-> todayUsage]

\* incrementUsage() without the update of quad.totalUsage.
IncrementUsageTodayOnly ==
    [todayUsage |-> todayUsage + 1, totalUsage |-> totalUsage]

\* incrementUsage(): the globalState it leaves.
IncrementUsage ==
    [todayUsage |-> todayUsage + 1, totalUsage |-> totalUsage + 1]

\* getUsageStats(): the statistics the command quad.showUsage displays.
GetUsageStats ==
    LET todayRequests == IF lastUsageDate # today THEN 0 ELSE todayUsage
    IN  [todayRequests |-> todayRequests,
         totalRequests |-> totalUsage,
         dailyLimit |-> IF isUsingPool THEN DAILY_POOL_LIMIT
                        ELSE DAILY_OWN_KEY_LIMIT,
         hasOwnKey |-> ~isUsingPool,
         poolRemaining |-> IF isUsingPool
                           THEN IF DAILY_POOL_LIMIT - todayRequests > 0
                                THEN DAILY_POOL_LIMIT - todayRequests ELSE 0
                           ELSE 0]

\* generateDocumentation with the quota check before the test of the model.
GenerateDocumentationBeginQuotaFirst ==
    IF ~CheckQuota.ok
    THEN [threw |-> TRUE, error |-> ErrQuotaDaily,
          lastUsageDate |-> CheckQuota.lastUsageDate,
          todayUsage |-> CheckQuota.todayUsage]
    ELSE IF ~model
    THEN [threw |-> TRUE, error |-> ErrApiKey,
          lastUsageDate |-> CheckQuota.lastUsageDate,
          todayUsage |-> CheckQuota.todayUsage]
    ELSE [threw |-> FALSE, error |-> "",
          lastUsageDate |-> CheckQuota.lastUsageDate,
          todayUsage |-> CheckQuota.todayUsage]

\* generateDocumentation up to its await: it throws, or the external call
\* is started.
GenerateDocumentationBegin ==
    IF ~model
    THEN [threw |-> TRUE, error |-> ErrApiKey,
          lastUsageDate |-> lastUsageDate, todayUsage |-> todayUsage]
    ELSE IF ~CheckQuota.ok
    THEN [threw |-> TRUE, error |-> ErrQuotaDaily,
          lastUsageDate |-> CheckQuota.lastUsageDate,
          todayUsage |-> CheckQuota.todayUsage]
    ELSE [threw |-> FALSE, error |-> "",
          lastUsageDate |-> CheckQuota.lastUsageDate,
          todayUsage |-> CheckQuota.todayUsage]

\* explainCode up to its await.
ExplainCodeBegin ==
    IF ~model
    THEN [threw |-> TRUE, error |-> ErrApiKey,
          lastUsageDate |-> lastUsageDate, todayUsage |-> todayUsage]
    ELSE IF ~CheckQuota.ok
    THEN [threw |-> TRUE, error |-> ErrQuotaDaily,
          lastUsageDate |-> CheckQuota.lastUsageDate,
          todayUsage |-> CheckQuota.todayUsage]
    ELSE [threw |-> FALSE, error |-> "",
          lastUsageDate |-> CheckQuota.lastUsageDate,
          todayUsage |-> CheckQuota.todayUsage]

\* suggestImprovements up to its await.
SuggestImprovementsBegin ==
    IF ~model
    THEN [threw |-> TRUE, error |-> ErrApiKey,
          lastUsageDate |-> lastUsageDate, todayUsage |-> todayUsage]
    ELSE IF ~CheckQuota.ok
    THEN [threw |-> TRUE, error |-> ErrQuotaDaily,
          lastUsageDate |-> CheckQuota.lastUsageDate,
          todayUsage |-> CheckQuota.todayUsage]
    ELSE [threw |-> FALSE, error |-> "",
          lastUsageDate |-> CheckQuota.lastUsageDate,
          todayUsage |-> CheckQuota.todayUsage]

\* The code after the await with a catch that rethrows every error as it is.
GenerateEndRethrow(outcome) ==
    IF outcome.ok
    THEN [threw |-> FALSE, error |-> "", text |-> outcome.text,
          todayUsage |-> IncrementUsage.todayUsage,
          totalUsage |-> IncrementUsage.totalUsage]
    ELSE [threw |-> TRUE, error |-> outcome.error,
          text |-> <<>>, todayUsage |-> todayUsage, totalUsage |-> totalUsage]

\* generateDocumentation, explainCode and suggestImprovements after the
\* await (the three have the same try/catch): the text is returned and the
\* usage incremented, or the error is mapped and thrown.
GenerateEnd(outcome) ==
    IF outcome.ok
    THEN [threw |-> FALSE, error |-> "", text |-> outcome.text,
          todayUsage |-> IncrementUsage.todayUsage,
          totalUsage |-> IncrementUsage.totalUsage]
    ELSE [threw |-> TRUE,
          error |-> IF Includes429(outcome.error) THEN ErrQuotaRate
                    ELSE outcome.error,
          text |-> <<>>, todayUsage |-> todayUsage, totalUsage |-> totalUsage]

\* ------------------------------------------------------------------------
\* Commands (extension.ts) and DocumentationService
\* ------------------------------------------------------------------------

\* The context string each command passes to handleError.
Context(cmd) ==
    CASE cmd = "documentFunction"  -> "Failed to generate documentation"
      [] cmd = "documentFile"      -> "Failed to document file"
      [] cmd = "documentSelection" -> "Failed to document selection"
      [] cmd = "explainCode"       -> "Failed to explain code"
      [] OTHER                     -> "Failed to analyze code"

MsgSetApiKey == "Invalid or missing API key. Please set your Gemini API key."

MsgQuotaHint == "API quota exceeded. Try again tomorrow or use your own API key."

\* handleError(error, context): the parts of the message it shows.  Every
\* error of the model is an Error.  The message set for a QUOTA error is
\* overwritten by the assignment that follows the test.
HandleError(error, context) ==
    IF IncludesApiKey(error) THEN <<MsgSetApiKey>>
    ELSE LET message  == IF IncludesQuota(error) THEN <<MsgQuotaHint>>
                         ELSE <<context>>
             message2 == <<context, ": ", error>>
         IN  <<"QUAD: ">> \o message2

\* applyDocumentation(editor, result)
ApplyDocumentation(tk, result) ==
    IF showInlinePreview
    THEN [task |-> [tk EXCEPT !.pc = "preview"], document |-> document]
    ELSE [task |-> [tk EXCEPT !.pc = "done", !.applied = TRUE],
          document |-> InsertAt(document, result.line, result.documentation)]

\* The progress callback of the commands documentFunction and
\* documentSelection once the service has returned.
CommandReturn(tk, result) ==
    LET tk1 == [tk EXCEPT !.pc = "done", !.returned = TRUE, !.result = result]
    IN  IF result.present /\ ~tk.token
        THEN ApplyDocumentation(tk1, result)
        ELSE [task |-> tk1, document |-> document]

\* The catch of a command: handleError shows a message.
CommandThrow(tk, error) ==
    [tk EXCEPT !.pc = "done", !.error = error, !.thrown = error,
               !.shown = HandleError(error, Context(tk.cmd))]

\* A loop body of documentFile without the pacing delay: the result is
\* pushed and the call for the next item is in flight at once.
ItemReturnNoDelay(tk, result) ==
    [tk EXCEPT !.pc = "generate", !.i = @ + 1, !.attempted = @ + 1,
               !.results = IF result.present THEN Append(@, result) ELSE @]

\* The loop body of documentFile after documentFunction returned: a result
\* is pushed, then the pacing delay starts.
ItemReturn(tk, result) ==
    [tk EXCEPT !.pc = "delay",
               !.results = IF result.present THEN Append(@, result) ELSE @]

\* A loop body of documentFile without the try/catch: the error of an item
\* leaves documentFile and reaches the catch of the command.
ItemThrowAborts(tk, error) == CommandThrow(tk, error)

\* The loop body of documentFile after documentFunction threw: the error is
\* logged, then the pacing delay starts.
ItemThrow(tk, error) ==
    [tk EXCEPT !.pc = "delay", !.logged = @ + 1, !.thrown = error]

\* The service call made for tk returns result to its caller.
ServiceReturn(tk, result) ==
    IF tk.cmd = "documentFile"
    THEN [task |-> ItemReturn(tk, result), document |-> document]
    ELSE CommandReturn(tk, result)

\* The service call made for tk throws error to its caller.
ServiceThrow(tk, error) ==
    [task |-> IF tk.cmd = "documentFile" THEN ItemThrow(tk, error)
              ELSE CommandThrow(tk, error),
     document |-> document]

\* documentFunction from the style resolution to the await of
\* generateDocumentation.
DocumentFunctionGenerate(func) ==
    LET g == GenerateDocumentationBegin
    IN  [pc |-> IF g.threw THEN "throw" ELSE "generate", func |-> func,
         warn |-> 0, error |-> g.error, lastUsageDate |-> g.lastUsageDate,
         todayUsage |-> g.todayUsage]

\* documentFunction without the test of func: a missing function goes on to
\* the generation.
DocumentFunctionBeginNoNullCheck(q) ==
    LET func == FindFunctionAtPosition(document, q, languageId)
    IN  IF func.found /\ HasDocumentation(document, func.startLine)
        THEN [pc |-> "confirm", func |-> func, warn |-> 0, error |-> "",
              lastUsageDate |-> lastUsageDate, todayUsage |-> todayUsage]
        ELSE DocumentFunctionGenerate(func)

\* documentFunction without the test of hasDocumentation: a documented
\* function goes on to the generation without a question.
DocumentFunctionBeginNoConfirm(q) ==
    LET func == FindFunctionAtPosition(document, q, languageId)
    IN  IF ~func.found
        THEN [pc |-> "return", func |-> func, warn |-> 1, error |-> "",
              lastUsageDate |-> lastUsageDate, todayUsage |-> todayUsage]
        ELSE DocumentFunctionGenerate(func)

\* documentFunction(document, position) up to its first await: it returns
\* null after a warning, asks for confirmation, throws, or is suspended at
\* the external call.
DocumentFunctionBegin(q) ==
    LET func == FindFunctionAtPosition(document, q, languageId)
    IN  IF ~func.found
        THEN [pc |-> "return", func |-> func, warn |-> 1, error |-> "",
              lastUsageDate |-> lastUsageDate, todayUsage |-> todayUsage]
        ELSE IF HasDocumentation(document, func.startLine)
        THEN [pc |-> "confirm", func |-> func, warn |-> 0, error |-> "",
              lastUsageDate |-> lastUsageDate, todayUsage |-> todayUsage]
        ELSE DocumentFunctionGenerate(func)

\* What a step of documentFunction leaves: the task, the document, the
\* usage state and whether an external call was started.
AfterBegin(tk, r) ==
    LET d == CASE r.pc = "return" ->
                    ServiceReturn([tk EXCEPT !.func = r.func,
                                             !.warnings = @ + r.warn], NoResult)
               [] r.pc = "throw" ->
                    ServiceThrow([tk EXCEPT !.func = r.func], r.error)
               [] r.pc = "confirm" ->
                    [task |-> [tk EXCEPT !.pc = "confirm", !.func = r.func],
                     document |-> document]
               [] OTHER ->
                    [task |-> [tk EXCEPT !.pc = "generate", !.func = r.func,
                                  !.style = ResolveStyle(documentationStyle,
                                                         languageId)],
                     document |-> document]
    IN  [task |-> d.task, document |-> d.document,
         lastUsageDate |-> r.lastUsageDate, todayUsage |-> r.todayUsage,
         requested |-> IF r.pc = "generate" THEN 1 ELSE 0]

\* The command documentFile without the test of the token: the results are
\* applied whenever there is one.
BatchReturnIgnoresToken(tk) ==
    LET tk1 == [tk EXCEPT !.pc = "done", !.returned = TRUE]
        edit == Len(tk.results) > 0
    IN  [task |-> IF edit THEN [tk1 EXCEPT !.applied = TRUE] ELSE tk1,
         document |-> IF edit
                      THEN ApplyResults(document, tk.results, Len(tk.results))
                      ELSE document,
         lastUsageDate |-> lastUsageDate, todayUsage |-> todayUsage,
         requested |-> 0]

\* documentFile returns its results; the command applies them in one edit
\* unless there is none or cancellation was requested.
BatchReturn(tk) ==
    LET tk1 == [tk EXCEPT !.pc = "done", !.returned = TRUE]
        edit == Len(tk.results) > 0 /\ ~tk.token
    IN  [task |-> IF edit THEN [tk1 EXCEPT !.applied = TRUE] ELSE tk1,
         document |-> IF edit
                      THEN ApplyResults(document, tk.results, Len(tk.results))
                      ELSE document,
         lastUsageDate |-> lastUsageDate, todayUsage |-> todayUsage,
         requested |-> 0]

\* The head of the loop of documentFile without the test of the token.
BatchLoopNoPoll(tk, i) ==
    IF i >= Len(tk.undocumented) THEN BatchReturn(tk)
    ELSE AfterBegin([tk EXCEPT !.i = i, !.attempted = @ + 1],
                    DocumentFunctionBegin(tk.undocumented[i + 1].startLine))

\* The head of the loop of documentFile at index i: the loop ends, or is
\* left because cancellation was requested, or documentFunction is called
\* for undocumented[i].
BatchLoop(tk, i) ==
    IF i >= Len(tk.undocumented) THEN BatchReturn(tk)
    ELSE IF tk.token THEN BatchReturn(tk)
    ELSE AfterBegin([tk EXCEPT !.i = i, !.attempted = @ + 1],
                    DocumentFunctionBegin(tk.undocumented[i + 1].startLine))

\* One effect record as the next state.
Becomes(t, e) ==
    /\ task' = [task EXCEPT ![t] = e.task]
    /\ document' = e.document
    /\ lastUsageDate' = e.lastUsageDate
    /\ todayUsage' = e.todayUsage
    /\ requests' = requests + e.requested

\* Each task runs one command; the tasks being alike, "t1" is the one that
\* starts first.
CanStart(t) ==
    /\ task[t].pc = "idle"
    /\ t = "t2" => task["t1"].pc # "idle"

NewTask(cmd) == [IdleTask EXCEPT !.cmd = cmd]

\* Command quad.documentFunction with the cursor on line q.
StartDocumentFunction(t, q) ==
    /\ CanStart(t)
    /\ q < Len(document)
    /\ Becomes(t, AfterBegin(NewTask("documentFunction"),
                             DocumentFunctionBegin(q)))
    /\ UNCHANGED <<probe, settingVars, keyVars, totalUsage, today, succeeded>>

\* Command quad.documentFile without the filter of the documented
\* functions.
StartDocumentFileNoFilter(t) ==
    /\ CanStart(t)
    /\ LET functions == FindAllFunctions(document, languageId)
           tk == [NewTask("documentFile") EXCEPT !.undocumented = functions]
       IN  IF Len(functions) = 0
           THEN Becomes(t, BatchReturn(tk))
           ELSE Becomes(t, BatchLoop(tk, 0))
    /\ UNCHANGED <<probe, settingVars, keyVars, totalUsage, today, succeeded>>

\* Command quad.documentFile.
StartDocumentFile(t) ==
    /\ CanStart(t)
    /\ LET functions    == FindAllFunctions(document, languageId)
           IsOpen(f)    == ~HasDocumentation(document, f.startLine)
           undocumented == SelectSeq(functions, IsOpen)
           tk == [NewTask("documentFile") EXCEPT !.undocumented = undocumented]
       IN  IF Len(functions) = 0 \/ Len(undocumented) = 0
           THEN Becomes(t, BatchReturn([tk EXCEPT !.undocumented = <<>>]))
           ELSE Becomes(t, BatchLoop(tk, 0))
    /\ UNCHANGED <<probe, settingVars, keyVars, totalUsage, today, succeeded>>

\* A command that calls the generation service directly: begin is what the
\* service method does up to its await.
StartDirect(t, tk, begin) ==
    /\ CanStart(t)
    /\ LET d == IF begin.threw
                THEN ServiceThrow(tk, begin.error)
                ELSE [task |-> [tk EXCEPT !.pc = "generate",
                                   !.style = ResolveStyle(documentationStyle,
                                                          languageId)],
                      document |-> document]
       IN  Becomes(t, [task |-> d.task, document |-> d.document,
                       lastUsageDate |-> begin.lastUsageDate,
                       todayUsage |-> begin.todayUsage,
                       requested |-> IF begin.threw THEN 0 ELSE 1])
    /\ UNCHANGED <<probe, settingVars, keyVars, totalUsage, today, succeeded>>

\* Command quad.documentSelection with a selection that starts on the first
\* line of the document, or on its last line.
StartDocumentSelection(t, atEnd) ==
    StartDirect(t, [NewTask("documentSelection") EXCEPT
                       !.line = IF atEnd THEN Len(document) - 1 ELSE 0],
                GenerateDocumentationBegin)

\* Command quad.explainCode.
StartExplainCode(t) ==
    StartDirect(t, NewTask("explainCode"), ExplainCodeBegin)

\* Command quad.improveCode.
StartImproveCode(t) ==
    StartDirect(t, NewTask("improveCode"), SuggestImprovementsBegin)

ConfirmAnswers == {"Replace", "Cancel", "dismissed"}

\* The user answers the warning "already has documentation. Replace it?".
Confirm(t, answer) ==
    /\ task[t].pc = "confirm"
    /\ LET tk == [task[t] EXCEPT !.action = answer]
       IN  IF answer # "Replace"
           THEN LET d == ServiceReturn(tk, NoResult)
                IN  Becomes(t, [task |-> d.task, document |-> d.document,
                                lastUsageDate |-> lastUsageDate,
                                todayUsage |-> todayUsage, requested |-> 0])
           ELSE Becomes(t, AfterBegin(tk, DocumentFunctionGenerate(tk.func)))
    /\ UNCHANGED <<probe, settingVars, keyVars, totalUsage, today, succeeded>>

\* model.generateContent settles: the service method resumes after its
\* await, then its caller does.
GenerateReturn(t, outcome) ==
    /\ task[t].pc = "generate"
    /\ LET tk == [task[t] EXCEPT
                     !.settled = IF outcome.ok THEN "ok" ELSE outcome.error,
                     !.generated = @ + (IF outcome.ok THEN 1 ELSE 0)]
           e  == GenerateEnd(outcome)
           selection == tk.cmd = "documentSelection"
           d  == IF e.threw THEN ServiceThrow(tk, e.error)
                 ELSE IF tk.cmd \in {"explainCode", "improveCode"}
                 THEN [task |-> [tk EXCEPT !.pc = "done", !.returned = TRUE,
                                           !.panel = ~tk.token],
                       document |-> document]
                 ELSE ServiceReturn(tk,
                        BuildResult(document, e.text, tk.style,
                            IF selection THEN tk.line ELSE tk.func.startLine,
                            IF selection THEN "selection" ELSE tk.func.name))
       IN  /\ task' = [task EXCEPT ![t] = d.task]
           /\ document' = d.document
           /\ todayUsage' = e.todayUsage
           /\ totalUsage' = e.totalUsage
    /\ succeeded' = succeeded + (IF outcome.ok THEN 1 ELSE 0)
    /\ UNCHANGED <<probe, settingVars, keyVars, lastUsageDate, today, requests>>

\* The pacing delay of documentFile is over: the loop goes on.
DelayElapsed(t) ==
    /\ task[t].pc = "delay"
    /\ Becomes(t, BatchLoop(task[t], task[t].i + 1))
    /\ UNCHANGED <<probe, settingVars, keyVars, totalUsage, today, succeeded>>

PreviewAnswers == {"Insert", "Preview", "Cancel"}

\* The user answers "Documentation generated. Insert it?".
PreviewAnswer(t, answer) ==
    /\ task[t].pc = "preview"
    /\ task' = [task EXCEPT ![t].pc = "done", ![t].applied = (answer = "Insert")]
    /\ document' = IF answer = "Insert"
                   THEN InsertAt(document, task[t].result.line,
                                 task[t].result.documentation)
                   ELSE document
    /\ UNCHANGED <<probe, settingVars, keyVars, lastUsageDate, todayUsage, totalUsage,
                   today, requests, succeeded>>

\* The user cancels the progress notification of a command in progress.
Cancel(t) ==
    /\ task[t].pc \in {"confirm", "generate", "delay", "preview"}
    /\ ~task[t].token
    /\ task' = [task EXCEPT ![t].token = TRUE, ![t].cancelledAt = task[t].pc]
    /\ UNCHANGED <<probe, document, settingVars, keyVars, lastUsageDate, todayUsage,
                   totalUsage, today, requests, succeeded>>

\* updateApiKey(newKey) without the assignment to isUsingPool.
UpdateApiKeyKeepsPool(t, newKey) ==
    /\ CanStart(t)
    /\ apiKey' = newKey
    /\ isUsingPool' = isUsingPool
    /\ model' = TRUE
    /\ task' = [task EXCEPT ![t] = [NewTask("setApiKey") EXCEPT !.pc = "done"]]
    /\ UNCHANGED <<probe, document, settingVars, lastUsageDate, todayUsage, totalUsage,
                   today, requests, succeeded>>

\* Command quad.setApiKey with a key the input box accepts: it calls
\* updateApiKey(newKey), whose initializeModel() succeeds.
UpdateApiKey(t, newKey) ==
    /\ CanStart(t)
    /\ apiKey' = newKey
    /\ isUsingPool' = FALSE
    /\ model' = TRUE
    /\ task' = [task EXCEPT ![t] = [NewTask("setApiKey") EXCEPT !.pc = "done"]]
    /\ UNCHANGED <<probe, document, settingVars, lastUsageDate, todayUsage, totalUsage,
                   today, requests, succeeded>>

\* Midnight passes.
NextDay ==
    /\ today < MaxDay
    /\ today' = today + 1
    /\ UNCHANGED <<probe, document, settingVars, keyVars, lastUsageDate, todayUsage,
                   totalUsage, task, requests, succeeded>>

\* A starting configuration: the document and its language, the settings
\* showInlinePreview, geminiApiKey and useQuadPool, the pool key of the build
\* and the number of requests already made on the first day.
Config(lines, language, preview, userKey, usePool, poolKey, count) ==
    [lines |-> lines, language |-> language, preview |-> preview,
     userKey |-> userKey, usePool |-> usePool, poolKey |-> poolKey,
     count |-> count]

\* The configurations a behaviour starts from: the shared pool one request
\* before its limit and at its limit, a build that still has the
\* placeholder, an own key one request before its limit and at its limit,
\* no key at all on a fresh installation, and an own key never used.
Configurations ==
    { Config(DocJs, "javascript", TRUE, "", TRUE, "AIzaPool",
             DAILY_POOL_LIMIT - 1),
      Config(DocJs, "javascript", FALSE, "", TRUE, "AIzaPool",
             DAILY_POOL_LIMIT),
      Config(DocJs, "javascript", TRUE, "", TRUE, QUAD_POOL_PLACEHOLDER,
             DAILY_POOL_LIMIT),
      Config(DocLong, "javascript", TRUE, "AIzaUser", TRUE, "AIzaPool",
             DAILY_OWN_KEY_LIMIT - 1),
      Config(DocLong, "javascript", FALSE, "AIzaUser", FALSE,
             QUAD_POOL_PLACEHOLDER, DAILY_OWN_KEY_LIMIT),
      Config(DocDocumented, "javascript", TRUE, "", TRUE, "AIzaPool",
             DAILY_POOL_LIMIT - 1),
      Config(DocNone, "plaintext", TRUE, "", FALSE, "AIzaPool", 0),
      Config(DocPy, "python", FALSE, "AIzaUser", TRUE, "AIzaPool", 0) }

\* The state after activate(): the constructor of GeminiService has run
\* initializeApiKey(); globalState holds what earlier sessions stored.
Init ==
    /\ \E c \in Configurations :
          LET s == InitializeApiKey(c.userKey, c.usePool, c.poolKey)
          IN  /\ document = c.lines
              /\ languageId = c.language
              /\ showInlinePreview = c.preview
              /\ apiKey = s.apiKey
              /\ model = s.model
              /\ isUsingPool = s.isUsingPool
              /\ lastUsageDate = IF c.count = 0 THEN 0 ELSE 1
              /\ todayUsage = c.count
              /\ totalUsage = c.count
    /\ documentationStyle = "auto"
    /\ today = 1
    /\ task = [t \in Tasks |-> IdleTask]
    /\ requests = 0
    /\ succeeded = 0
    /\ probe = NoProbe

Next ==
    \/ \E t \in Tasks, q \in 0..(MaxLines - 1) : StartDocumentFunction(t, q)
    \/ \E t \in Tasks : StartDocumentFile(t)
    \/ \E t \in Tasks, atEnd \in BOOLEAN : StartDocumentSelection(t, atEnd)
    \/ \E t \in Tasks : StartExplainCode(t)
    \/ \E t \in Tasks : StartImproveCode(t)
    \/ \E t \in Tasks, a \in ConfirmAnswers : Confirm(t, a)
    \/ \E t \in Tasks, o \in Outcomes : GenerateReturn(t, o)
    \/ \E t \in Tasks : DelayElapsed(t)
    \/ \E t \in Tasks, a \in PreviewAnswers : PreviewAnswer(t, a)
    \/ \E t \in Tasks : Cancel(t)
    \/ \E t \in Tasks, k \in UserKeys \ {""} : UpdateApiKey(t, k)
    \/ NextDay

Spec == Init /\ [][Next]_vars

\* ------------------------------------------------------------------------
\* The region locator on its own
\* ------------------------------------------------------------------------

\* The lines the loop of findFunctionAtPosition matches against the
\* patterns, from line i down: it stops below lo and at the first match.
RECURSIVE MatchedBackFrom(_, _, _, _)
MatchedBackFrom(lines, i, lo, language) ==
    IF i < lo THEN {}
    ELSE IF MatchLine(language, lines[i + 1]) # NoMatch THEN {i}
    ELSE {i} \cup MatchedBackFrom(lines, i - 1, lo, language)

\* The last line the Python branch of findFunctionEnd reads, from line i on.
RECURSIVE PyLastRead(_, _, _)
PyLastRead(lines, startIndent, i) ==
    IF i >= Len(lines) THEN Len(lines) - 1
    ELSE LET line == TrimLine(lines[i + 1])
         IN  IF line = <<>> \/ At(line, 1) = "#"
             THEN PyLastRead(lines, startIndent, i + 1)
             ELSE IF GetIndentLevel(lines[i + 1]) <= startIndent
                  THEN i
                  ELSE PyLastRead(lines, startIndent, i + 1)

\* The last line the brace branch of findFunctionEnd reads, from line i on.
RECURSIVE BraceLastRead(_, _, _, _)
BraceLastRead(lines, i, braceCount, started) ==
    IF i >= Len(lines) THEN Len(lines) - 1
    ELSE LET opens  == CountTok(lines[i + 1], "{", 1)
             closes == CountTok(lines[i + 1], "}", 1)
             count  == braceCount + opens - closes
             st     == started \/ opens > 0
         IN  IF st /\ count = 0 THEN i
             ELSE BraceLastRead(lines, i + 1, count, st)

\* The lines findFunctionEnd(lines, startLine, language) reads.
ReadByFindFunctionEnd(lines, startLine, language) ==
    startLine ..
        (IF language = "python"
         THEN PyLastRead(lines, GetIndentLevel(lines[startLine + 1]),
                         startLine + 1)
         ELSE BraceLastRead(lines, startLine, 0, FALSE))

\* The lines findFunctionAtPosition reads: those it matches against the
\* patterns and, after a match, those findFunctionEnd reads.
ReadAtPosition(lines, lineNumber, language) ==
    LET lo      == Max(0, lineNumber - ScanBack)
        matched == MatchedBackFrom(lines, lineNumber, lo, language)
        func    == FindFunctionAtPosition(lines, lineNumber, language)
    IN  matched \cup (IF func.found
                      THEN ReadByFindFunctionEnd(lines, func.startLine, language)
                      ELSE {})

\* The non-empty sequences of up to n elements of S.
SeqsUpTo(S, n) == UNION {[1..k -> S] : k \in 1..n}

\* Lines of JavaScript:  function f() {  |  function f(  |    o = {}  |
\* ) {  |    x;  |  }  |  }, {  |   */ (with a space after it)
JsLines ==
    { <<"function", " ", "f", "(", ")", " ", "{">>,
      <<"function", " ", "f", "(">>,
      <<" ", " ", "o", " ", "=", " ", "{", "}">>,
      <<")", " ", "{">>,
      <<" ", " ", "x", ";">>,
      <<"}">>,
      <<"}", ",", " ", "{">>,
      <<" ", "*/", " ">> }

\* Lines of Python:  def f():  |    def g():  |      x  |  (empty)  |
\*   # c  |  y
PyLines ==
    { <<"def", " ", "f", "(", ")", ":">>,
      <<" ", " ", "def", " ", "g", "(", ")", ":">>,
      <<" ", " ", " ", " ", "x">>,
      <<>>,
      <<" ", " ", "#", " ", "c">>,
      <<"y">> }

\* Lines before a function: ends of comments, and lines that look like them.
CommentLines ==
    { <<" ", "*/", " ">>, <<"\"\"\"">>, <<" ", "'''">>, <<"///", " ", "d">>,
      <<"*/", " ", "x">>, <<"x", " ", "///">>, <<" ">>, <<"//", " ", "d">> }

\* d with n lines put after its first line.
Stretch(d, line, n) == <<d[1]>> \o [i \in 1..n |-> line] \o Tail(d)

\* The documents the locator is applied to for a language.
LocatorDocuments(language) ==
    LET python == language = "python"
        lines  == IF python THEN PyLines ELSE JsLines
        filler == IF python THEN <<" ", " ", " ", " ", "x">>
                  ELSE <<" ", " ", "x", ";">>
        named  == IF python THEN {DocPy}
                  ELSE {DocJs, DocLong, DocDocumented, DocNone, DocSignature}
    IN  SeqsUpTo(lines, MaxDocLen)
          \cup {Stretch(d, filler, n) :
                   d \in SeqsUpTo(lines, 2),
                   n \in {ScanBack - 1, ScanBack, ScanBack + 1}}
          \cup {<<c, d[1]>> : c \in CommentLines, d \in SeqsUpTo(lines, 1)}
          \cup named

\* What the locator does not use: no command runs, nothing was generated.
Unused ==
    /\ documentationStyle = "auto"
    /\ showInlinePreview = TRUE
    /\ apiKey = ""
    /\ model = FALSE
    /\ isUsingPool = FALSE
    /\ lastUsageDate = 0
    /\ todayUsage = 0
    /\ totalUsage = 0
    /\ today = 1
    /\ task = [t \in Tasks |-> IdleTask]
    /\ requests = 0
    /\ succeeded = 0

\* A language without a pattern list of its own is applied to the named
\* documents.
LocatorInit ==
    /\ \/ \E language \in {"javascript", "python"} :
             /\ languageId = language
             /\ document \in LocatorDocuments(language)
       \/ /\ languageId = "plaintext"
          /\ document \in {DocJs, DocPy, DocNone, DocSignature}
    /\ probe = NoProbe
    /\ Unused

\* The variables a function applied on its own leaves alone.
fixedVars ==
    <<document, languageId, documentationStyle, showInlinePreview, apiKey,
      model, isUsingPool, lastUsageDate, todayUsage, totalUsage, today, task,
      requests, succeeded>>

\* findFunctionAtPosition(text, new Position(q, 0), language)
LocateAtPoint(q) ==
    /\ probe = NoProbe
    /\ q < Len(document)
    /\ probe' = [NoProbe EXCEPT
                    !.op = "findFunctionAtPosition",
                    !.q = q,
                    !.func = FindFunctionAtPosition(document, q, languageId),
                    !.matched = MatchedBackFrom(document, q,
                                    Max(0, q - ScanBack), languageId),
                    !.read = ReadAtPosition(document, q, languageId)]
    /\ UNCHANGED fixedVars

\* findAllFunctions(text, language)
LocateAll ==
    /\ probe = NoProbe
    /\ probe' = [NoProbe EXCEPT
                    !.op = "findAllFunctions",
                    !.all = FindAllFunctions(document, languageId)]
    /\ UNCHANGED fixedVars

\* findFunctionEnd(lines, startLine, language)
FindEnd(startLine) ==
    /\ probe = NoProbe
    /\ startLine < Len(document)
    /\ probe' = [NoProbe EXCEPT
                    !.op = "findFunctionEnd",
                    !.q = startLine,
                    !.end = FindFunctionEnd(document, startLine, languageId)]
    /\ UNCHANGED fixedVars

\* hasDocumentation(document, n)
CheckDocumented(n) ==
    /\ probe = NoProbe
    /\ n < Len(document)
    /\ probe' = [NoProbe EXCEPT
                    !.op = "hasDocumentation",
                    !.q = n,
                    !.flag = HasDocumentation(document, n)]
    /\ UNCHANGED fixedVars

LocatorNext ==
    \/ \E q \in 0..(MaxLines - 1) : LocateAtPoint(q)
    \/ LocateAll
    \/ \E startLine \in 0..(MaxLines - 1) : FindEnd(startLine)
    \/ \E n \in 0..(MaxLines - 1) : CheckDocumented(n)

LocatorSpec == LocatorInit /\ [][LocatorNext]_vars

\* ------------------------------------------------------------------------
\* The clean-up of generated text on its own
\* ------------------------------------------------------------------------

\* Lines of generated text:  FENCE js  |  FENCE  |  /**  |   * text  |
\*  */  |  (empty)  |  text  |  /** d */  |   */ (with a space after it)  |
\* text FENCE  |   FENCE js (after a space)  |  text FENCE FENCE
RawLines ==
    { <<"FENCE", "js">>,
      <<"FENCE">>,
      <<"/**">>,
      <<" ", "*", " ", "text">>,
      <<" ", "*/">>,
      <<>>,
      <<"text">>,
      <<"/**", " ", "d", " ", "*/">>,
      <<" ", "*/", " ">>,
      <<"text", "FENCE">>,
      <<" ", "FENCE", "js">>,
      <<"text", "FENCE", "FENCE">> }

\* The styles cleanDocumentation is called with.
CleanerStyles == BraceStyles \cup {"google"}

\* The generated texts that are cleaned.
CleanerTexts ==
    SeqsUpTo(RawLines, MaxRawLen)
        \cup RawTexts
        \cup { << <<"FENCE", "js">>, <<"/**", " ", "d", " ", "*/">>,
                  <<"FENCE">> >>,
               << <<" ", "FENCE", "js">>, <<"/**", " ", "d", " ", "*/">>,
                  <<"FENCE">> >> }

CleanerInit ==
    /\ languageId = "javascript"
    /\ document = DocMethod
    /\ \E raw \in CleanerTexts, style \in CleanerStyles :
          probe = [NoProbe EXCEPT !.raw = raw, !.style = style]
    /\ Unused

\* cleanDocumentation(raw, style)
Clean ==
    /\ probe.op = "none"
    /\ probe' = [probe EXCEPT
                    !.op = "cleanDocumentation",
                    !.text = CleanDocumentation(probe.raw, probe.style)]
    /\ UNCHANGED fixedVars

\* cleanDocumentation(text, style) for the text that cleanDocumentation
\* returned for raw.
CleanAgain ==
    /\ probe.op = "cleanDocumentation"
    /\ probe' = [probe EXCEPT
                    !.op = "cleanDocumentation twice",
                    !.again = CleanDocumentation(probe.text, probe.style)]
    /\ UNCHANGED fixedVars

\* The tail of documentFunction for the function that starts on line
\* startLine and the answer raw, the insert of applyDocumentation, and what
\* hasDocumentation and the filter of documentFile make of the edited
\* document: func is the function, again the edited document, q the line
\* the function starts on after the insert, flag what hasDocumentation
\* returns for q, all the undocumented functions of the edited document.
ApplyCleaned(startLine) ==
    /\ probe.op = "cleanDocumentation"
    /\ startLine < Len(document)
    /\ MatchLine(languageId, document[startLine + 1]) # NoMatch
    /\ LET func   == FindFunctionAtPosition(document, startLine, languageId)
           result == BuildResult(document, probe.raw, probe.style,
                                 func.startLine, func.name)
           edited == InsertAt(document, result.line, result.documentation)
           q      == func.startLine + Len(result.documentation)
           IsOpen(f) == ~HasDocumentation(edited, f.startLine)
       IN  probe' = [probe EXCEPT
                        !.op = "applyDocumentation",
                        !.func = func,
                        !.again = edited,
                        !.q = q,
                        !.flag = HasDocumentation(edited, q),
                        !.all = SelectSeq(FindAllFunctions(edited, languageId),
                                          IsOpen)]
    /\ UNCHANGED fixedVars

CleanerNext ==
    \/ Clean
    \/ CleanAgain
    \/ \E startLine \in 0..(MaxLines - 1) : ApplyCleaned(startLine)

CleanerSpec == CleanerInit /\ [][CleanerNext]_vars

\* ------------------------------------------------------------------------
\* The prompt of a documentation request on its own
\* ------------------------------------------------------------------------

\* The keys of LANGUAGE_STYLE_MAP, and a language that is not a key.
PromptLanguages ==
    {"typescript", "javascript", "typescriptreact", "javascriptreact",
     "python", "java", "kotlin", "go", "rust", "cpp", "c", "csharp", "php",
     "ruby", "swift", "plaintext"}

\* The values of the setting quad.documentationStyle: auto and the style
\* names of the two tables.
StyleSettings ==
    {"auto"} \cup GuideStyles
        \cup {LanguageStyle(language) : language \in PromptLanguages}

PromptInit ==
    /\ languageId \in PromptLanguages
    /\ document = DocJs
    /\ \E configured \in StyleSettings :
          probe = [NoProbe EXCEPT !.style = configured]
    /\ Unused

\* documentSelection from its start to the prompt that generateDocumentation
\* builds for its request, the selection being the whole document.
BuildPrompt(includeExamples, includeTypes) ==
    /\ probe.op = "none"
    /\ probe' = [probe EXCEPT
                    !.op = "buildDocumentationPrompt",
                    !.flag = includeExamples,
                    !.text = BuildDocumentationPrompt(
                                [code |-> document,
                                 language |-> languageId,
                                 style |-> ResolveStyle(probe.style, languageId),
                                 includeExamples |-> includeExamples,
                                 includeTypes |-> includeTypes])]
    /\ UNCHANGED fixedVars

PromptNext ==
    \E includeExamples \in BOOLEAN, includeTypes \in BOOLEAN :
        BuildPrompt(includeExamples, includeTypes)

PromptSpec == PromptInit /\ [][PromptNext]_vars

\* ------------------------------------------------------------------------
\* Properties
\* ------------------------------------------------------------------------

\* Task t calls documentationService.documentFunction in this step: its
\* command starts, or the loop of documentFile takes its next item.
InvokesDocumentFunction(t) ==
    \/ task[t].pc = "idle" /\ task'[t].cmd = "documentFunction"
    \/ task'[t].attempted = task[t].attempted + 1

\* Task t calls geminiService.generateDocumentation in this step: from
\* documentFunction for a function without documentation or after the
\* answer Replace, or from documentSelection.
CallsGenerateDocumentation(t) ==
    \/ /\ InvokesDocumentFunction(t)
       /\ task'[t].func.found
       /\ ~HasDocumentation(document, task'[t].func.startLine)
    \/ /\ task[t].pc = "confirm"
       /\ task'[t].pc # "confirm"
       /\ task'[t].action = "Replace"
    \/ task[t].pc = "idle" /\ task'[t].cmd = "documentSelection"

\* A service call of task t throws to its caller in this step: the loop of
\* documentFile logs the error, a command catches it.
FailsNow(t) ==
    \/ task'[t].logged = task[t].logged + 1
    \/ task[t].error = "" /\ task'[t].error # ""

\* The call that task t makes in this step throws error before any external
\* call is started and leaves the usage state as it is.
RejectedWith(t, error) ==
    /\ FailsNow(t)
    /\ task'[t].thrown = error
    /\ task'[t].cmd # "documentFile" => task'[t].error = error
    /\ task'[t].pc \in {"done", "delay"}
    /\ requests' = requests
    /\ UNCHANGED <<lastUsageDate, todayUsage, totalUsage>>

\* The stored date is today and the stored count is the limit of the pool.
PoolExhausted ==
    isUsingPool /\ lastUsageDate = today /\ todayUsage = DAILY_POOL_LIMIT

\* C1 (as amended): when the shared pool is in use with a model configured
\* (the pool key of the build is a real key), the stored usage date is today
\* and the stored count equals the pool limit of 20, a call of
\* generateDocumentation fails with 'QUOTA: Daily request limit exceeded'
\* before any external call is started, and the usage state is unchanged.
C1_PoolExhaustedQuotaError ==
    [][\A t \in Tasks :
          (PoolExhausted /\ model /\ CallsGenerateDocumentation(t))
              => RejectedWith(t, ErrQuotaDaily)]_vars

\* C1 witness: a call of generateDocumentation was rejected with the daily
\* quota error while the pool stood at 20 of 20, no external call started.
C1_Witness ==
    /\ PoolExhausted /\ model /\ requests = 0
    /\ \E t \in Tasks : /\ task[t].cmd \in {"documentFunction", "documentSelection"}
                        /\ task[t].error = ErrQuotaDaily

\* C1 as stated: whenever the shared pool is in use, the stored usage date is
\* today and the stored count is 20, a call of generateDocumentation fails
\* with a QUOTA error before any external call, usage state unchanged.
C1_AsStated ==
    [][\A t \in Tasks :
          (PoolExhausted /\ CallsGenerateDocumentation(t))
              => RejectedWith(t, ErrQuotaDaily)]_vars

\* C2 as stated: as long as neither the key mode nor the date has changed,
\* the usage count of today never exceeds the daily limit of the key mode,
\* whatever calls overlap.
C2_QuotaInvariant ==
    (today = 1 /\ \A t \in Tasks : task[t].cmd # "setApiKey")
        => todayUsage <= DailyLimit

\* C3 as stated: the first quota check or increment after the date rolled
\* over resets the count of today for the new date (a check leaves 0, an
\* increment leaves 1, the stored date becomes today), and no step taken
\* while the stored date is today lowers the count.
C3_ResetOnFirstUse ==
    [][/\ (lastUsageDate # today
             /\ (requests' # requests \/ succeeded' # succeeded))
          => (lastUsageDate' = today /\ todayUsage' \in {0, 1})
       /\ (lastUsageDate = today /\ today' = today)
          => todayUsage' >= todayUsage]_vars

\* C4: in every step the total count and the count of today grow by exactly
\* the number of calls that returned successfully in it; the only other
\* change is the rollover reset of the count of today, made by a quota
\* check when the stored date is not today.
C4_CountsFollowSuccesses ==
    [][/\ totalUsage' - totalUsage = succeeded' - succeeded
       /\ \/ todayUsage' - todayUsage = succeeded' - succeeded
          \/ /\ lastUsageDate # today
             /\ lastUsageDate' = today
             /\ todayUsage' = 0
             /\ succeeded' = succeeded]_vars

\* C4 witness: two calls that overlapped at the external call have both
\* returned successfully, and a third call has failed.
C4_Witness ==
    /\ succeeded = 2
    /\ requests = 2
    /\ isUsingPool
    /\ today = 1
    /\ totalUsage = DAILY_POOL_LIMIT + 1

\* C5: a failing generation call throws exactly one of: the API_KEY error,
\* when no model is configured; a QUOTA error, when the quota check fails or
\* the external call rejected with a 429 error; otherwise the error of the
\* external call itself, which reaches the command unchanged.  A call made
\* without a model and an external call that rejects always fail.
C5_FailureKinds ==
    [][\A t \in Tasks :
          LET e == task'[t].thrown
              settles == task[t].pc = "generate" /\ task'[t].pc # "generate"
          IN  /\ FailsNow(t) =>
                    /\ \/ /\ e = ErrApiKey
                          /\ ~model
                          /\ ~settles
                       \/ /\ e = ErrQuotaDaily
                          /\ model
                          /\ lastUsageDate = today
                          /\ todayUsage >= DailyLimit
                          /\ ~settles
                       \/ /\ e = ErrQuotaRate
                          /\ settles
                          /\ Includes429(task'[t].settled)
                       \/ /\ e = task'[t].settled
                          /\ e \in ExtErrors
                          /\ ~Includes429(e)
                          /\ settles
                    /\ task'[t].cmd # "documentFile" => task'[t].error = e
              /\ (CallsGenerateDocumentation(t) /\ ~model)
                    => (FailsNow(t) /\ e = ErrApiKey)
              /\ (settles /\ task'[t].settled # "ok") => FailsNow(t)]_vars

\* C5 witness: one command has failed with the error of the external call
\* itself, another with the QUOTA error made from a 429 error.
C5_Witness ==
    \E t, u \in Tasks :
        /\ task[t].cmd \in {"documentFunction", "documentSelection"}
        /\ task[t].error = ErrFetch
        /\ task[t].settled = ErrFetch
        /\ task[u].error = ErrQuotaRate
        /\ task[u].settled = Err429

\* C6 as stated: a command that failed with a QUOTA error shows the message
\* that suggests trying again tomorrow or using an own API key.
C6_QuotaMessageShown ==
    \A t \in Tasks :
        IncludesQuota(task[t].error)
            => \E k \in 1..Len(task[t].shown) : task[t].shown[k] = MsgQuotaHint

\* C7: a call of documentFunction that finds no function in its scan window
\* gives one warning and returns null: no external call is started, no
\* error is thrown, and the usage state and the document are unchanged.  In
\* a document without any function every call is such a call.
C7_NoFunctionNoEffect ==
    [][\A t \in Tasks :
          /\ (InvokesDocumentFunction(t) /\ ~task'[t].func.found) =>
                /\ task'[t].warnings = task[t].warnings + 1
                /\ ~FailsNow(t)
                /\ task'[t].cmd = "documentFunction" =>
                      /\ task'[t].pc = "done"
                      /\ task'[t].returned
                      /\ ~task'[t].result.present
                      /\ ~task'[t].applied
                /\ task'[t].cmd = "documentFile" =>
                      /\ task'[t].pc = "delay"
                      /\ task'[t].results = task[t].results
                /\ requests' = requests
                /\ UNCHANGED <<document, lastUsageDate, todayUsage, totalUsage>>
          /\ (/\ InvokesDocumentFunction(t)
              /\ Len(FindAllFunctions(document, languageId)) = 0)
                => ~task'[t].func.found]_vars

\* C7 witness: the command documentFunction has returned null after one
\* warning, the only function of the document being more than 20 lines
\* above the cursor; no external call was started.
C7_Witness ==
    \E t \in Tasks :
        /\ task[t].cmd = "documentFunction"
        /\ task[t].pc = "done"
        /\ ~task[t].func.found
        /\ task[t].warnings = 1
        /\ task[t].returned
        /\ Len(FindAllFunctions(document, languageId)) > 0
        /\ requests = 0

\* C8: a call of documentFunction that finds a documented function asks for
\* confirmation first: that step starts no external call, throws nothing and
\* changes neither the usage state nor the document.  An answer other than
\* Replace makes the call return null, again with no external call, no
\* error and no change of the usage state or the document.
C8_ConfirmBeforeReplace ==
    [][\A t \in Tasks :
          /\ (/\ InvokesDocumentFunction(t)
              /\ task'[t].func.found
              /\ HasDocumentation(document, task'[t].func.startLine)) =>
                /\ task'[t].pc = "confirm"
                /\ ~FailsNow(t)
                /\ requests' = requests
                /\ UNCHANGED <<document, lastUsageDate, todayUsage, totalUsage>>
          /\ (/\ task[t].pc = "confirm"
              /\ task'[t].pc # "confirm"
              /\ task'[t].action # "Replace") =>
                /\ ~FailsNow(t)
                /\ task'[t].cmd = "documentFunction" =>
                      /\ task'[t].pc = "done"
                      /\ task'[t].returned
                      /\ ~task'[t].result.present
                      /\ ~task'[t].applied
                /\ task'[t].cmd = "documentFile" =>
                      /\ task'[t].pc = "delay"
                      /\ task'[t].results = task[t].results
                /\ requests' = requests
                /\ UNCHANGED <<document, lastUsageDate, todayUsage, totalUsage>>
       ]_vars

\* C8 witness: the command documentFunction found a documented function, the
\* question was dismissed or answered Cancel, and the command has returned
\* null with no external call started.
C8_Witness ==
    \E t \in Tasks :
        /\ task[t].cmd = "documentFunction"
        /\ task[t].pc = "done"
        /\ task[t].func.found
        /\ HasDocumentation(document, task[t].func.startLine)
        /\ task[t].action \in {"Cancel", "dismissed"}
        /\ task[t].returned
        /\ ~task[t].result.present
        /\ requests = 0

\* C9: documentFile never throws to its command; an item that fails adds no
\* result and is followed by the pacing delay; after the delay the next item
\* is attempted unless cancellation was requested; its results are those of
\* the items whose external call returned a text; and when it returns
\* without cancellation every item has been attempted.
C9_BatchIsolation ==
    [][\A t \in Tasks :
          task'[t].cmd = "documentFile" =>
              /\ task'[t].error = ""
              /\ task'[t].shown = <<>>
              /\ Len(task'[t].results) = task'[t].generated
              /\ FailsNow(t) =>
                    /\ task'[t].results = task[t].results
                    /\ task'[t].pc = "delay"
              /\ (/\ task[t].pc = "delay"
                  /\ task'[t].pc # "delay"
                  /\ ~task[t].token
                  /\ task[t].i + 1 < Len(task[t].undocumented)) =>
                    /\ task'[t].i = task[t].i + 1
                    /\ task'[t].attempted = task[t].attempted + 1
              /\ (task'[t].pc = "done" /\ ~task'[t].token) =>
                    /\ task'[t].returned
                    /\ task'[t].attempted = Len(task'[t].undocumented)
       ]_vars

\* C9 witness: documentFile has returned without cancellation; its first
\* item failed and was logged, its second item succeeded and is the one
\* result.
C9_Witness ==
    \E t \in Tasks :
        /\ task[t].cmd = "documentFile"
        /\ task[t].pc = "done"
        /\ task[t].returned
        /\ ~task[t].token
        /\ task[t].logged = 1
        /\ Len(task[t].undocumented) = 2
        /\ Len(task[t].results) = 1
        /\ task[t].results[1].functionName = task[t].undocumented[2].name

\* What holds of every step of a documentFile task whose cancellation has
\* been requested: no new item is taken; the loop, when its delay is over,
\* returns the results it has, throwing nothing and starting no call; a call
\* in flight that returns a text adds its result.
CancelledBatchStep(t) ==
    /\ task'[t].attempted = task[t].attempted
    /\ (task[t].pc = "delay" /\ task'[t].pc # "delay") =>
          /\ task'[t].pc = "done"
          /\ task'[t].returned
          /\ task'[t].results = task[t].results
          /\ task'[t].error = ""
          /\ requests' = requests
    /\ (/\ task[t].pc = "generate"
        /\ task'[t].pc # "generate"
        /\ task'[t].settled = "ok") =>
          /\ task'[t].pc = "delay"
          /\ Len(task'[t].results) = Len(task[t].results) + 1

\* Task t starts an external call in this step.
StartsExternalCall(t) ==
    task[t].pc # "generate" /\ task'[t].pc = "generate"

C11_SequentialPaced ==
    [][\A t \in Tasks :
          task'[t].cmd = "documentFile" =>
              LET a == task[t]
                  b == task'[t]
              IN  /\ \A j, k \in 1..Len(b.undocumented) :
                        j < k => b.undocumented[j].startLine
                                    < b.undocumented[k].startLine
                  /\ (a.pc = "generate" /\ b.pc # "generate") => b.pc = "delay"
                  /\ (a.pc # "generate" /\ b.pc = "generate") =>
                        /\ a.pc \in {"idle", "delay", "confirm"}
                        /\ requests' = requests + 1
                  /\ (a.pc # "confirm" /\ b.pc = "confirm") =>
                        a.pc \in {"idle", "delay"}
                  /\ (a.pc = "delay" /\ b.pc # "delay") =>
                        \/ b.pc = "done" /\ b.attempted = a.attempted
                        \/ b.i = a.i + 1 /\ b.attempted = a.attempted + 1
                  /\ a.pc \in {"confirm", "generate"} => b.i = a.i
                  /\ b.pc \in {"confirm", "generate", "delay"} =>
                        /\ b.attempted = b.i + 1
                        /\ b.i < Len(b.undocumented)
                  /\ a.pc = "generate" => requests' = requests
                                            \/ task'[t] = task[t]]_vars

\* C11 witness: documentFile has returned two results, made by two external
\* calls, in the order of their lines.
C11_Witness ==
    \E t \in Tasks :
        /\ task[t].cmd = "documentFile"
        /\ task[t].pc = "done"
        /\ task[t].generated = 2
        /\ Len(task[t].results) = 2
        /\ task[t].results[1].line < task[t].results[2].line
        /\ requests = 2

\* C12: when findAllFunctions finds no function, and when every function it
\* finds has documentation, documentFile returns an empty array at once: no
\* item is taken, no external call is started, no error is thrown, and the
\* usage state and the document stay as they are.
C12_NothingToDocument ==
    [][\A t \in Tasks :
          LET functions == FindAllFunctions(document, languageId)
          IN  (/\ task[t].pc = "idle"
               /\ task'[t].cmd = "documentFile"
               /\ \A k \in 1..Len(functions) :
                     HasDocumentation(document, functions[k].startLine)) =>
                  /\ task'[t].pc = "done"
                  /\ task'[t].returned
                  /\ task'[t].results = <<>>
                  /\ task'[t].attempted = 0
                  /\ task'[t].error = ""
                  /\ ~task'[t].applied
                  /\ requests' = requests
                  /\ UNCHANGED <<document, lastUsageDate, todayUsage,
                                 totalUsage>>]_vars

\* C12 witness: documentFile has returned an empty array for a document
\* whose functions are all documented; no external call was started.
C12_Witness ==
    \E t \in Tasks :
        /\ task[t].cmd = "documentFile"
        /\ task[t].pc = "done"
        /\ task[t].returned
        /\ task[t].results = <<>>
        /\ task[t].attempted = 0
        /\ Len(FindAllFunctions(document, languageId)) > 0
        /\ requests = 0

\* C13 as stated: a function that findFunctionAtPosition returns for the
\* query line q encloses it, startLine <= q <= endLine.
C13_EnclosesQuery ==
    (probe.op = "findFunctionAtPosition" /\ probe.func.found) =>
        /\ probe.func.startLine <= probe.q
        /\ probe.q <= probe.func.endLine

\* The lines of the document that match a pattern of the language.
FunctionLines ==
    {i \in 0..(Len(document) - 1) :
        MatchLine(languageId, document[i + 1]) # NoMatch}

\* What C14 says of the search for the function start at query line q: only
\* lines among the 20 before q and q itself are matched against the
\* patterns; a function found starts at the nearest of them that matches;
\* none is found when no line of them matches.
SearchWindow(q) ==
    LET window == {i \in 0..q : i >= q - 20}
    IN  /\ probe.matched \subseteq window
        /\ probe.func.found =>
              /\ probe.func.startLine \in window \cap FunctionLines
              /\ \A i \in window \cap FunctionLines :
                    i <= probe.func.startLine
        /\ window \cap FunctionLines = {} => ~probe.func.found

\* C14 (as amended): findFunctionAtPosition matches no line against the
\* patterns that is more than 20 lines before the query line, before the
\* start of the document or after the query line, and returns null when no
\* line of that window matches; every line it reads at all is at most 20
\* lines before the query line (finding the end of a function that matched
\* reads on from its first line, also past the query line).
C14_ScanWindow ==
    probe.op = "findFunctionAtPosition" =>
        /\ SearchWindow(probe.q)
        /\ \A i \in probe.read :
              i >= 0 /\ i >= probe.q - 20 /\ i < Len(document)

\* C14 witness: the only line of the document that matches a pattern is 21
\* lines before the query line, and findFunctionAtPosition returned null.
C14_Witness ==
    /\ probe.op = "findFunctionAtPosition"
    /\ ~probe.func.found
    /\ FunctionLines = {probe.q - 21}

\* C14 as stated: no line that findFunctionAtPosition inspects is more than
\* 20 lines before the query line, before the start of the document or
\* after the query line, and it returns null when no line of that window
\* matches.
C14_AsStated ==
    probe.op = "findFunctionAtPosition" =>
        /\ SearchWindow(probe.q)
        /\ \A i \in probe.read :
              i >= 0 /\ i >= probe.q - 20 /\ i <= probe.q

\* The line of the brace that closes the body of the function that starts
\* on line i, read token by token from token j of line i: the body opens
\* with the first brace outside the parentheses of the signature and ends
\* where its nesting is back at zero.  -1 when there is no such brace.
RECURSIVE BodyEndFrom(_, _, _, _, _, _)
BodyEndFrom(lines, i, j, parens, depth, opened) ==
    IF i >= Len(lines) THEN -1
    ELSE IF j > Len(lines[i + 1])
    THEN BodyEndFrom(lines, i + 1, 1, parens, depth, opened)
    ELSE LET tok == lines[i + 1][j]
         IN  IF opened
             THEN IF tok = "{"
                  THEN BodyEndFrom(lines, i, j + 1, parens, depth + 1, TRUE)
                  ELSE IF tok = "}"
                  THEN IF depth = 1 THEN i
                       ELSE BodyEndFrom(lines, i, j + 1, parens, depth - 1, TRUE)
                  ELSE BodyEndFrom(lines, i, j + 1, parens, depth, TRUE)
             ELSE IF tok = "("
                  THEN BodyEndFrom(lines, i, j + 1, parens + 1, 0, FALSE)
                  ELSE IF tok = ")"
                  THEN IF parens = 0 THEN -1
                       ELSE BodyEndFrom(lines, i, j + 1, parens - 1, 0, FALSE)
                  ELSE IF parens > 0
                  THEN BodyEndFrom(lines, i, j + 1, parens, 0, FALSE)
                  ELSE IF tok = "{"
                  THEN BodyEndFrom(lines, i, j + 1, 0, 1, TRUE)
                  ELSE IF tok = "}" THEN -1
                  ELSE BodyEndFrom(lines, i, j + 1, 0, 0, FALSE)

BodyEndLine(lines, startLine) == BodyEndFrom(lines, startLine, 1, 0, 0, FALSE)

\* C15 as stated: for a function of a brace language that starts on
\* startLine and has a well-formed body, findFunctionEnd returns the line of
\* the brace that closes the body.
C15_ClosingBraceLine ==
    (/\ probe.op = "findFunctionEnd"
     /\ languageId # "python"
     /\ probe.q \in FunctionLines
     /\ BodyEndLine(document, probe.q) >= 0)
        => probe.end = BodyEndLine(document, probe.q)

\* The number of whitespace tokens a line starts with.
Indentation(line) ==
    Cardinality({k \in 1..Len(line) : \A j \in 1..k : IsWs(line[j])})

\* The line is empty or whitespace, or its first other token is a "#".
BlankOrComment(line) ==
    \/ \A k \in 1..Len(line) : IsWs(line[k])
    \/ \E k \in 1..Len(line) :
          line[k] = "#" /\ \A j \in 1..(k - 1) : IsWs(line[j])

\* The lines after startLine that are neither blank nor comments and are
\* indented no more than startLine.
DedentLines(startLine) ==
    {i \in (startLine + 1)..(Len(document) - 1) :
        /\ ~BlankOrComment(document[i + 1])
        /\ Indentation(document[i + 1]) <= Indentation(document[startLine + 1])}

\* C16: for python, findFunctionEnd returns the line before the first line
\* after startLine that is neither blank nor a comment and is indented no
\* more than startLine; without such a line, the last line of the document.
C16_PythonEnd ==
    (probe.op = "findFunctionEnd" /\ languageId = "python") =>
        LET dedent == DedentLines(probe.q)
        IN  IF dedent = {}
            THEN probe.end = Len(document) - 1
            ELSE /\ probe.end + 1 \in dedent
                 /\ \A i \in dedent : probe.end + 1 <= i

\* C16 witness: findFunctionEnd was applied to the first line of
\* def f(): / return 1 / (empty) / def g(): and returned the line before
\* def g(); and the same for a document without a later dedented line.
C16_Witness ==
    /\ probe.op = "findFunctionEnd"
    /\ languageId = "python"
    /\ document = DocPy
    /\ probe.q = 0
    /\ probe.end = 2

\* C17 as stated: when blank lines and then a line indented no more than
\* the def line follow the body of a Python function, the end line is not a
\* blank line; for def f(): / return 1 / (empty) / def g(): and startLine 0
\* it is 1.
C17_EndIsBodyLine ==
    (/\ probe.op = "findFunctionEnd"
     /\ languageId = "python"
     /\ probe.q \in FunctionLines
     /\ DedentLines(probe.q) # {}) =>
        /\ \E k \in 1..Len(document[probe.end + 1]) :
              ~IsWs(document[probe.end + 1][k])
        /\ (document = DocPy /\ probe.q = 0) => probe.end = 1

\* Function f lies inside the document and its code is the lines from its
\* start line to its end line.
InsideDocument(f) ==
    /\ 0 <= f.startLine
    /\ f.startLine <= f.endLine
    /\ f.endLine <= Len(document) - 1
    /\ f.code = [k \in 1..(f.endLine - f.startLine + 1) |->
                    document[f.startLine + k]]

\* C18: every function that findFunctionAtPosition or findAllFunctions
\* returns has 0 <= startLine <= endLine <= last line of the document, and
\* its code is the lines startLine..endLine of the document.
C18_FunctionInsideDocument ==
    /\ (probe.op = "findFunctionAtPosition" /\ probe.func.found)
          => InsideDocument(probe.func)
    /\ probe.op = "findAllFunctions"
          => \A k \in 1..Len(probe.all) : InsideDocument(probe.all[k])

\* C18 witness: findFunctionAtPosition returned a function that starts on
\* the last line of a document of several lines and whose brace is never
\* closed.
C18_Witness ==
    /\ probe.op = "findFunctionAtPosition"
    /\ probe.func.found
    /\ Len(document) > 1
    /\ probe.func.startLine = Len(document) - 1
    /\ probe.func.endLine = Len(document) - 1
    /\ \E k \in 1..Len(document[Len(document)]) :
          document[Len(document)][k] = "{"

\* The line, whitespace at its ends aside, ends with the end of a block
\* comment or of a docstring, or starts with three slashes.
EndsDocumentation(line) ==
    \E k \in 1..Len(line) :
        \/ /\ line[k] \in {"*/", "\"\"\"", "'''"}
           /\ \A j \in (k + 1)..Len(line) : IsWs(line[j])
        \/ /\ line[k] = "///"
           /\ \A j \in 1..(k - 1) : IsWs(line[j])

\* C19: hasDocumentation(document, n) is false for n = 0; for n > 0 it is
\* true exactly when line n-1, trimmed, ends with the end of a block comment
\* or with three double or single quotes, or starts with three slashes.
C19_AlreadyDocumented ==
    probe.op = "hasDocumentation" =>
        probe.flag = (probe.q > 0 /\ EndsDocumentation(document[probe.q]))

\* C19 witness: hasDocumentation returned true for line 1 of a document
\* whose line 0 ends a block comment and has whitespace on both sides.
C19_Witness ==
    /\ probe.op = "hasDocumentation"
    /\ probe.q = 1
    /\ probe.flag
    /\ document[1] = <<" ", "*/", " ">>

\* The first characters of the text are the opening of a block comment.
StartsComment(text) == At(text[1], 1) = "/**"

\* The last characters of the text are the end of a block comment.
EndsComment(text) ==
    At(text[Len(text)], Len(text[Len(text)])) = "*/"

\* C20: for the styles jsdoc, tsdoc and javadoc the text cleanDocumentation
\* returns starts with the opening of a block comment and ends with its
\* end; it is the raw text with its fences stripped and trimmed, with an
\* opening line before it only when it does not start with one, and a
\* closing line after it only when it does not end with one.
C20_CommentDelimiters ==
    (probe.op = "cleanDocumentation" /\ probe.style \in BraceStyles) =>
        LET stripped ==
                TrimText(ReplaceFenceEnd(ReplaceFenceStart(probe.raw, 1)))
            before == IF StartsComment(stripped) THEN <<>>
                      ELSE << <<"/**">> >>
            after  == IF EndsComment(stripped) THEN <<>>
                      ELSE << <<" ", "*/">> >>
        IN  /\ StartsComment(probe.text)
            /\ EndsComment(probe.text)
            /\ probe.text = before \o stripped \o after

\* C20 witness: a comment of one line between two fence lines was cleaned
\* for a brace style and came back as that one line, nothing added.
C20_Witness ==
    /\ probe.op = "cleanDocumentation"
    /\ probe.style \in BraceStyles
    /\ probe.raw = << <<"FENCE", "js">>,
                      <<"/**", " ", "d", " ", "*/">>,
                      <<"FENCE">> >>
    /\ probe.text = << <<"/**", " ", "d", " ", "*/">> >>

\* C21 as stated: for the styles jsdoc, tsdoc and javadoc, cleanDocumentation
\* applied to a text that cleanDocumentation returned for the same style
\* returns that text unchanged.
C21_CleanIdempotent ==
    (probe.op = "cleanDocumentation twice" /\ probe.style \in BraceStyles)
        => probe.again = probe.text

\* The lines of part are consecutive lines of text.
ContainsLines(text, part) ==
    \E k \in 0..(Len(text) - Len(part)) :
        SubSeq(text, k + 1, k + Len(part)) = part

\* The style a prompt names in its line "Generate documentation for this
\* ... code using ... style."
StyleOfPrompt(prompt) == prompt[3][4]

\* C22 as stated: for every style a request can have (a value of the
\* setting documentationStyle other than auto, or the style of the
\* language in LANGUAGE_STYLE_MAP), the table of style guides has a guide of
\* that style and the prompt contains it.
C22_OwnTemplate ==
    probe.op = "buildDocumentationPrompt" =>
        LET style == StyleOfPrompt(probe.text)
        IN  /\ style \in GuideStyles
            /\ ContainsLines(probe.text, StyleGuide(style))

\* The DocumentationResults that the service hands to task t in this step:
\* the result of documentFunction, or the one pushed by documentFile.
NewResults(t) ==
    IF task'[t].cmd = "documentFunction"
    THEN IF task'[t].result.present /\ ~task[t].result.present
         THEN {task'[t].result} ELSE {}
    ELSE IF /\ task'[t].cmd = "documentFile"
            /\ Len(task'[t].results) = Len(task[t].results) + 1
         THEN {task'[t].results[Len(task'[t].results)]}
         ELSE {}

\* Result r is placed at column 0 of the start line of function func, and
\* each of its lines is a line of a cleaned answer after the leading
\* whitespace that the start line of func had when func was located.
PlacedAtFunction(r, func, style) ==
    LET indentation == LeadingWhitespace(func.code[1])
    IN  /\ r.line = func.startLine
        /\ r.functionName = func.name
        /\ \E raw \in AnswerTexts :
              LET cleaned == CleanDocumentation(raw, style)
              IN  r.documentation =
                      [k \in 1..Len(cleaned) |-> indentation \o cleaned[k]]

\* C23 as stated: every DocumentationResult of documentFunction, and every
\* element of the results of documentFile, has as position column 0 of the
\* start line of the function it documents, and every line of its text
\* starts with the leading whitespace of that start line.
C23_InsertionPoint ==
    [][\A t \in Tasks : \A r \in NewResults(t) :
          PlacedAtFunction(r, task[t].func, task[t].style)]_vars

\* The captures of the patterns of the language on the line, in the order
\* of the language's list; a language without a list of its own has the
\* list of JavaScript.
CapturesOn(line) ==
    IF languageId = "python"
    THEN <<MatchPyDef(line)>>
    ELSE <<MatchJsFunction(line), MatchJsConst(line), MatchJsProperty(line)>>

\* The patterns of the list that match the line, by their place in the list.
MatchingPatterns(line) ==
    {k \in 1..Len(CapturesOn(line)) : CapturesOn(line)[k] # NoMatch}

\* C24: findFunctionAtPosition returns the function that starts on the
\* line nearest to the query line q, among q and the 20 lines before it,
\* that matches a pattern of the language, and null when none of them
\* matches; the name is the capture of the first pattern of the list that
\* matches that line; a language without a list has the list of JavaScript.
C24_NearestFirstPattern ==
    probe.op = "findFunctionAtPosition" =>
        LET window   == {i \in 0..probe.q : i >= probe.q - 20}
            matching == {i \in window : MatchingPatterns(document[i + 1]) # {}}
        IN  IF matching = {}
            THEN ~probe.func.found
            ELSE /\ probe.func.found
                 /\ probe.func.startLine \in matching
                 /\ \A i \in matching : i <= probe.func.startLine
                 /\ LET line == document[probe.func.startLine + 1]
                    IN  \E k \in MatchingPatterns(line) :
                           /\ \A j \in MatchingPatterns(line) : k <= j
                           /\ probe.func.name = CapturesOn(line)[k]

\* C24 witness: for a language without a pattern list, with three lines
\* above the query line that match a JavaScript pattern, the function of the
\* nearest of them was returned, named by the third pattern of the list.
C24_Witness ==
    /\ probe.op = "findFunctionAtPosition"
    /\ languageId = "plaintext"
    /\ document = DocJs
    /\ probe.q = 7
    /\ probe.func.found
    /\ probe.func.startLine = 6
    /\ probe.func.name = "foo"

\* Functions f and g have the same name, start line and end line.
SameFunction(f, g) ==
    /\ f.found = g.found
    /\ f.name = g.name
    /\ f.startLine = g.startLine
    /\ f.endLine = g.endLine

\* findAllFunctions returns one function for each line that matches a
\* pattern, in the order of the lines, and findFunctionAtPosition at the
\* start line of each of them returns the same function.
LocatorsAgree(lines, language) ==
    LET all == FindAllFunctions(lines, language)
    IN  /\ {all[k].startLine : k \in 1..Len(all)}
              = {i \in 0..(Len(lines) - 1) :
                    MatchLine(language, lines[i + 1]) # NoMatch}
        /\ \A j, k \in 1..Len(all) :
              j < k => all[j].startLine < all[k].startLine
        /\ \A k \in 1..Len(all) :
              SameFunction(all[k],
                  FindFunctionAtPosition(lines, all[k].startLine, language))

\* C25 as stated: findAllFunctions and findFunctionAtPosition agree on the
\* document, and the function that documentFunction locates for an item of
\* the loop of documentFile is the function listed for that item.
C25_BatchDocumentsListed ==
    [][/\ LocatorsAgree(document, languageId)
       /\ \A t \in Tasks :
            (/\ task'[t].cmd = "documentFile"
             /\ task'[t].attempted = task[t].attempted + 1)
                => SameFunction(task'[t].undocumented[task'[t].i + 1],
                                task'[t].func)]_vars

\* C26: for the styles jsdoc, tsdoc and javadoc, after the documentation of
\* a result was inserted at column 0 of the start line of its function, the
\* function starts as many lines further down as the documentation has,
\* hasDocumentation is true for that line, and the list of undocumented
\* functions that documentFile builds for the edited document has no
\* function that starts there.
C26_DocumentedAfterInsert ==
    (probe.op = "applyDocumentation" /\ probe.style \in BraceStyles) =>
        LET oldStart == probe.func.startLine
            newStart == probe.q
        IN  /\ newStart > oldStart
            /\ probe.again[newStart + 1] = document[oldStart + 1]
            /\ SubSeq(probe.again, newStart + 1, Len(probe.again))
                  = SubSeq(document, oldStart + 1, Len(document))
            /\ probe.flag
            /\ \A k \in 1..Len(probe.all) : probe.all[k].startLine # newStart

\* C26 witness: prose without delimiters was cleaned for jsdoc, indented
\* like the function on line 1 of the document and inserted there as three
\* lines; the function, now on line 4, has documentation.
C26_Witness ==
    /\ probe.op = "applyDocumentation"
    /\ probe.style = "jsdoc"
    /\ probe.raw = << <<"text">> >>
    /\ probe.func.startLine = 1
    /\ probe.q = 4
    /\ probe.again[4] = <<" ", " ", " ", "*/">>
    /\ probe.flag

\* Cancellation of the command of task tk was requested before its service
\* call returned: while it waited for the answer to the replace question,
\* for the external call or for the pacing delay.
CancelledBeforeReturn(tk) ==
    /\ tk.cmd \in {"documentFunction", "documentSelection", "documentFile"}
    /\ tk.cancelledAt \in {"confirm", "generate", "delay"}

\* C27: a command documentFunction, documentSelection or documentFile whose
\* cancellation was requested before its service call returned never edits
\* the document and never asks whether to insert, whatever the service
\* returned; an external call of it that returns a text after the request
\* is still counted in the usage of today and in the total usage.
C27_NoEditAfterCancel ==
    [][\A t \in Tasks :
          CancelledBeforeReturn(task'[t]) =>
              /\ ~task'[t].applied
              /\ task'[t].pc # "preview"
              /\ task'[t] # task[t] => document' = document
              /\ task'[t].generated = task[t].generated + 1 =>
                    /\ todayUsage' = todayUsage + 1
                    /\ totalUsage' = totalUsage + 1]_vars

\* C27 witness: documentFile was cancelled while an external call was
\* pending; the call returned a text, documentFile returned a result, and
\* the command ended without an edit.
C27_Witness ==
    \E t \in Tasks :
        /\ task[t].cmd = "documentFile"
        /\ task[t].cancelledAt = "generate"
        /\ task[t].pc = "done"
        /\ task[t].returned
        /\ Len(task[t].results) > 0
        /\ task[t].generated > 0
        /\ ~task[t].applied
        /\ totalUsage > 0

\* Task t calls generateDocumentation, explainCode or suggestImprovements
\* in this step.
CallsGeneration(t) ==
    \/ CallsGenerateDocumentation(t)
    \/ task[t].pc = "idle" /\ task'[t].cmd \in {"explainCode", "improveCode"}

\* No own key was set and the pool key is missing or is the placeholder.
NoUsableKey == apiKey \in {"", QUAD_POOL_PLACEHOLDER}

\* C28: while there is no own key and the pool key is missing or is the
\* placeholder, every call of generateDocumentation, explainCode and
\* suggestImprovements throws the API_KEY error, starts no external call and
\* leaves the stored usage date, the count of today and the total count as
\* they are, whatever the count and the date.
C28_AuthErrorBeforeQuota ==
    [][\A t \in Tasks :
          (NoUsableKey /\ CallsGeneration(t)) => RejectedWith(t, ErrApiKey)]_vars

\* C28 witness: with the placeholder as pool key, a call of each task has
\* failed with the API_KEY error and the day has changed: the stored date
\* is still the day before, the count still at the limit of the pool, and
\* no external call was started.
C28_Witness ==
    /\ NoUsableKey
    /\ isUsingPool
    /\ todayUsage = DAILY_POOL_LIMIT
    /\ today = 2
    /\ lastUsageDate = 1
    /\ requests = 0
    /\ \A t \in Tasks : task[t].error = ErrApiKey

\* The start lines of the functions listed for the batch of task tk.
ListedLines(tk) ==
    {tk.undocumented[k].startLine : k \in 1..Len(tk.undocumented)}

\* The results of the batch of task tk are for functions listed for it, one
\* result at most for each, in the order of the source.
OneResultEach(tk) ==
    /\ \A k \in 1..Len(tk.results) : tk.results[k].line \in ListedLines(tk)
    /\ \A j, k \in 1..Len(tk.results) :
          j < k => tk.results[j].line < tk.results[k].line

\* The batch of task tk waits for nothing but an external call or a pacing
\* delay: these are the only waits that the claim assumes to end.
WaitsOnlyForCallOrDelay(tk) ==
    tk.pc \in {"generate", "delay", "done"}

\* C29 as stated: documentFile returns once its external calls have settled
\* and its pacing delays have elapsed, so it waits for nothing else; it has
\* started one external call at most and returns one result at most for
\* each undocumented function, in the order of the source.
C29_BatchTerminates ==
    \A t \in Tasks :
        task[t].cmd = "documentFile" =>
            /\ WaitsOnlyForCallOrDelay(task[t])
            /\ task[t].attempted <= Len(task[t].undocumented)
            /\ OneResultEach(task[t])

\* The service is in own-key mode: the limit of the own key applies to the
\* daily counter, a call on the stored date below that limit passes the
\* quota check, and getUsageStats reports the own key and nothing remaining
\* in the pool.
OwnKeyMode ==
    /\ ~isUsingPool
    /\ DailyLimit = DAILY_OWN_KEY_LIMIT
    /\ (model /\ todayUsage < DAILY_OWN_KEY_LIMIT) =>
          ~GenerateDocumentationBegin.threw
    /\ GetUsageStats.dailyLimit = DAILY_OWN_KEY_LIMIT
    /\ GetUsageStats.hasOwnKey
    /\ GetUsageStats.poolRemaining = 0

\* C30: updateApiKey leaves the service in own-key mode and leaves the
\* daily counter and its date as they were, and no later step takes the
\* service out of own-key mode.
C30_OwnKeyAfterUpdate ==
    [][/\ (\E t \in Tasks, k \in UserKeys \ {""} : UpdateApiKey(t, k)) =>
            /\ OwnKeyMode'
            /\ todayUsage' = todayUsage
            /\ lastUsageDate' = lastUsageDate
       /\ (~isUsingPool) => OwnKeyMode']_vars

\* C30 witness: the session started on the shared pool with the counter at
\* the limit of the pool, where the quota check refuses a call; the first
\* command set the key, and the one call made afterwards on the same date
\* has succeeded: the counter is above the limit of the pool, and
\* getUsageStats reports the own key.
C30_Witness ==
    /\ today = 1
    /\ lastUsageDate = today
    /\ task["t1"].cmd = "setApiKey"
    /\ apiKey = "AIzaUser"
    /\ ~isUsingPool
    /\ requests = 1
    /\ succeeded = 1
    /\ todayUsage = DAILY_POOL_LIMIT + 1
    /\ GetUsageStats.hasOwnKey
    /\ GetUsageStats.poolRemaining = 0
    /\ GetUsageStats.todayRequests = DAILY_POOL_LIMIT + 1

====
